---- MODULE Spec2Model ----
(***************************************************************************)
(* Model of the local API gateway of the wallet backend:                   *)
(*   backend/handlers/handlers.go  (connection data, token gate, request   *)
(*   dispatcher, lazily created account/device handlers, event relay).     *)
(***************************************************************************)
EXTENDS Integers, Sequences, FiniteSets, TLC

VARIABLES
    apiData,             \* *ConnectionData handed to NewHandlers
    router,              \* routes registered on the mux router, in registration order
    resp,                \* the request being served together with its response
    accountHandlersMap,  \* map[string]*accountHandlers.Handlers
    deviceHandlersMap,   \* map[string]*bitboxHandlers.Handlers
    handlersMapLock,     \* holder of the locker.Locker, or NoProc
    constructed,         \* per registry key: how often the sub-handler constructor ran
    active,              \* sub-handler instances that are initialized (Init without Uninit)
    initSeen,            \* registry keys for which the backend delivered an init event
    proc,                \* per goroutine delivering a backend lifecycle event: its position
    backendEvents,       \* the channel returned by backend.Start()
    emitted,             \* number of events the backend has produced so far
    conns,               \* per websocket connection: channels and goroutine positions
    admittedBefore,      \* whether the token gate has admitted an earlier request
    opener,              \* the POST /api/open call in flight and its system.Open calls
    srv,                 \* serve() of the Qt frontend's server and its goroutine
    construction,        \* how far NewHandlers has got, and the lifecycle events since
    backend,             \* the business request in flight, its inputs and backend calls
    store                \* the fiat rates store, the config behind it and its pending writes

vars == <<apiData, router, resp, accountHandlersMap, deviceHandlersMap, handlersMapLock,
          constructed, active, initSeen, proc, backendEvents, emitted, conns,
          admittedBefore, opener, srv, construction,
          backend, store>>

gateVars == <<apiData, router, resp, admittedBefore, opener, backend>>
registryVars == <<accountHandlersMap, deviceHandlersMap, handlersMapLock, constructed,
                  active, initSeen, proc>>
bridgeVars == <<backendEvents, emitted, conns>>
serverVars == <<srv, construction>>

-----------------------------------------------------------------------------
(* Bounds of the model *)

MaxEvents == 3        \* events the backend source produces
BackendEventsCap == 2 \* buffer of the backend event channel
MaxServed == 2        \* requests the started server answers
MaxConstructions == 2 \* constructor runs per registry key, panicking ones included
MaxLifecycleEvents == 3 \* lifecycle events the backend emits after Start
MaxNow == 50          \* latest start time, in hours
MaxCalls == 3         \* calls of the fiat store's exported functions

(* Program constants *)

DevPort == -1
StatusUnauthorized == 401
StatusOK == 200
StatusSwitchingProtocols == 101
StatusBadRequest == 400

Ports == {DevPort, 8082}
Tokens == {"", "tok"}

AccountCodes == {"a1"}
DeviceIDs == {"d1", "d2"}
\* The concrete type behind device.Interface, per device identifier.
DeviceType(deviceID) == IF deviceID = "d1" THEN "bitbox.Device" ELSE "other"
Procs == {"g1", "g2"}
Conns == {1, 2}
NoProc == ""

-----------------------------------------------------------------------------
(* ConnectionData *)

NewConnectionData(port, token) ==
    [port |-> port, token |-> token, devMode |-> Len(token) = 0]

isDev(connectionData) ==
    connectionData.port = DevPort \/ connectionData.token = ""

-----------------------------------------------------------------------------
(* Strings.  A string of the program is written in the model character by  *)
(* character: TAB, LF, FF, CR and printable ASCII other than ^ and the      *)
(* backtick as themselves, ^ as ^^, and any other character as ^XXXX; with  *)
(* its code point in lower-case hexadecimal digits, four at least (^0008;   *)
(* is a backspace, ^1f600; is U+1F600).  Two strings of the program are     *)
(* equal, or one the prefix of the other, exactly when the model's are.     *)
(*                                                                          *)
(* encoding/json as used by writeJSON: strings are quoted and escaped, with *)
(* the HTML-safe escaping json.Encoder applies by default.  FF and the      *)
(* other control characters without a short escape are written \u00XX, as   *)
(* the Go releases before 1.22 do.                                          *)

EscapeChar(c) ==
    CASE c = "\"" -> "\\\""
      [] c = "\\" -> "\\\\"
      [] c = "\n" -> "\\n"
      [] c = "\r" -> "\\r"
      [] c = "\t" -> "\\t"
      [] c = "\f" -> "\\u000c"
      [] c = "<"  -> "\\u003c"
      [] c = ">"  -> "\\u003e"
      [] c = "&"  -> "\\u0026"
      [] OTHER    -> c

\* The encoder goes through the string character by character.  A control
\* character, U+2028 and U+2029 are written \uXXXX; ^ and every other
\* character written ^XXXX; are put out as they are.
RECURSIVE EscapeString(_)
EscapeString(s) ==
    IF Len(s) = 0 THEN ""
    ELSE IF SubSeq(s, 1, 1) # "^"
        THEN EscapeChar(SubSeq(s, 1, 1)) \o EscapeString(SubSeq(s, 2, Len(s)))
    ELSE IF Len(s) >= 2 /\ SubSeq(s, 2, 2) = "^"
        THEN "^^" \o EscapeString(SubSeq(s, 3, Len(s)))
    ELSE IF /\ Len(s) >= 6 /\ SubSeq(s, 6, 6) = ";"
            /\ \/ SubSeq(s, 2, 4) \in {"000", "001"}
               \/ SubSeq(s, 2, 5) \in {"2028", "2029"}
        THEN "\\u" \o SubSeq(s, 2, 5) \o EscapeString(SubSeq(s, 7, Len(s)))
    ELSE "^" \o EscapeString(SubSeq(s, 2, Len(s)))

QuoteString(s) == "\"" \o EscapeString(s) \o "\""

\* Values a business function returns (interface{}).
NilValue == [t |-> "nil"]
BoolValue(b) == [t |-> "bool", b |-> b]
StringValue(s) == [t |-> "string", s |-> s]
NaNValue == [t |-> "float", f |-> "NaN"]
\* map[string]string{"error": msg}
ErrorMap(msg) == [t |-> "strmap", k |-> "error", s |-> msg]
\* map[string]interface{}{"success": b}
SuccessMap(b) == [t |-> "boolmap", k |-> "success", b |-> b]

\* map[string]interface{}{"success": b, k: s}, k being accountCode or errorCode
ResultMap(b, k, s) == [t |-> "resultmap", b |-> b, k |-> k, s |-> s]

\* json.Marshal: <<TRUE, bytes>> or <<FALSE, error text>>.
Marshal(value) ==
    CASE value.t = "nil"    -> <<TRUE, "null">>
      [] value.t = "bool"   -> <<TRUE, IF value.b THEN "true" ELSE "false">>
      [] value.t = "string" -> <<TRUE, QuoteString(value.s)>>
      [] value.t = "float"  -> <<FALSE, "json: unsupported value: " \o value.f>>
      [] value.t = "strmap" ->
            <<TRUE, "{" \o QuoteString(value.k) \o ":" \o QuoteString(value.s) \o "}">>
      [] value.t = "boolmap" ->
            <<TRUE, "{" \o QuoteString(value.k) \o ":" \o
                    (IF value.b THEN "true" ELSE "false") \o "}">>
      [] value.t = "resultmap" ->
            <<TRUE, "{" \o QuoteString(value.k) \o ":" \o QuoteString(value.s) \o ","
                    \o QuoteString("success") \o ":"
                    \o (IF value.b THEN "true" ELSE "false") \o "}">>

-----------------------------------------------------------------------------
(* The response writer.  calls counts Write calls; the set wf names the     *)
(* Write calls that fail (the peer is gone).                                *)

NoPanic == <<>>
WriteError == "write: broken pipe"

NewResponse == [body |-> <<>>, calls |-> 0]

Write(w, bytes, wf) ==
    IF (w.calls + 1) \in wf
        THEN [w |-> [w EXCEPT !.calls = @ + 1], err |-> <<WriteError>>]
        ELSE [w |-> [body |-> Append(w.body, bytes), calls |-> w.calls + 1],
              err |-> <<>>]

\* json.NewEncoder(w).Encode(value): marshal, append a newline, one Write.
Encode(w, value, wf) ==
    LET m == Marshal(value) IN
    IF ~m[1] THEN [w |-> w, err |-> <<m[2]>>]
    ELSE Write(w, m[2] \o "\n", wf)

\* writeJSON panics with the encoder's error.
writeJSON(w, value, wf) ==
    LET e == Encode(w, value, wf) IN [w |-> e.w, panic |-> e.err]

-----------------------------------------------------------------------------
(* Token gate *)

\* http.Error: plain-text body, the given status; a failed Write is ignored.
httpError(error, code, wf) ==
    [status |-> code, contentType |-> "text/plain; charset=utf-8", allowOrigin |-> "",
     body |-> Write(NewResponse, error \o "\n", wf).w.body, escaped |-> FALSE]

\* A mutant of isAPITokenValid that only rejects a missing header.
isAPITokenValidAnyHeader(authorization, data) ==
    data.devMode \/ Len(authorization) # 0

\* The boolean result of isAPITokenValid; authorization is
\* r.Header.Get("Authorization"), "" when the header is absent.
isAPITokenValid(authorization, data) ==
    IF data.devMode THEN TRUE
    ELSE IF Len(authorization) = 0 THEN FALSE
    ELSE IF Len(authorization) # 0 /\ authorization # "Basic " \o data.token THEN FALSE
    ELSE TRUE

\* What isAPITokenValid writes when it rejects the request.
tokenError(authorization, path, wf) ==
    IF Len(authorization) = 0
        THEN httpError("missing token " \o path, StatusUnauthorized, wf)
        ELSE httpError("incorrect token", StatusUnauthorized, wf)

-----------------------------------------------------------------------------
(* Request dispatcher *)

\* Outcome of a business function h(r): it panics, or returns (value, err).
Returns(value, err) == [panic |-> NoPanic, value |-> value, err |-> err]
Panics(msg) == [panic |-> <<msg>>, value |-> NilValue, err |-> <<>>]

\* A mutant of apiMiddleware that serializes the value although h failed.
apiMiddlewareIgnoreErr(devMode, outcome, wf) ==
    LET afterH == IF outcome.panic # NoPanic
                     THEN [w |-> NewResponse, panic |-> outcome.panic]
                  ELSE writeJSON(NewResponse, outcome.value, wf)
        recovered == IF afterH.panic # NoPanic
                        THEN writeJSON(afterH.w, ErrorMap(afterH.panic[1]), wf)
                        ELSE afterH
    IN  [status |-> StatusOK, contentType |-> "text/json",
         allowOrigin |-> IF devMode THEN "http://localhost:8080" ELSE "",
         body |-> recovered.w.body, escaped |-> recovered.panic # NoPanic]

\* A mutant of apiMiddleware that answers a failed call with a server-error
\* status.
apiMiddlewareErrorStatus(devMode, outcome, wf) ==
    LET afterH == IF outcome.panic # NoPanic
                     THEN [w |-> NewResponse, panic |-> outcome.panic]
                  ELSE IF outcome.err # <<>>
                     THEN writeJSON(NewResponse, ErrorMap(outcome.err[1]), wf)
                  ELSE writeJSON(NewResponse, outcome.value, wf)
        recovered == IF afterH.panic # NoPanic
                        THEN writeJSON(afterH.w, ErrorMap(afterH.panic[1]), wf)
                        ELSE afterH
    IN  [status |-> IF outcome.err # <<>> \/ afterH.panic # NoPanic THEN 500 ELSE StatusOK,
         contentType |-> "text/json",
         allowOrigin |-> IF devMode THEN "http://localhost:8080" ELSE "",
         body |-> recovered.w.body, escaped |-> recovered.panic # NoPanic]

\* The handler apiMiddleware(devMode, h) returns, applied to one request:
\* headers, h(r), writeJSON of the error or of the value, and the deferred
\* recover, whose own writeJSON may panic again.
apiMiddleware(devMode, outcome, wf) ==
    LET afterH == IF outcome.panic # NoPanic
                     THEN [w |-> NewResponse, panic |-> outcome.panic]
                  ELSE IF outcome.err # <<>>
                     THEN writeJSON(NewResponse, ErrorMap(outcome.err[1]), wf)
                  ELSE writeJSON(NewResponse, outcome.value, wf)
        recovered == IF afterH.panic # NoPanic
                        THEN writeJSON(afterH.w, ErrorMap(afterH.panic[1]), wf)
                        ELSE afterH
    IN  [status |-> StatusOK, contentType |-> "text/json",
         allowOrigin |-> IF devMode THEN "http://localhost:8080" ELSE "",
         body |-> recovered.w.body, escaped |-> recovered.panic # NoPanic]

\* A mutant of ensureAPITokenValid that keeps a session: once a request has
\* been admitted, later requests are admitted without the token.
ensureAPITokenValidSession(authorization, path, connData, outcome, wf) ==
    IF isAPITokenValid(authorization, connData) \/ admittedBefore
        THEN [ran |-> TRUE, response |-> apiMiddleware(isDev(connData), outcome, wf)]
        ELSE [ran |-> FALSE, response |-> tokenError(authorization, path, wf)]

\* The handler getAPIRouter registers for a business function:
\* ensureAPITokenValid(apiMiddleware(connData.isDev(), f), connData, log).
\* ran tells whether the business function was invoked.
ensureAPITokenValid(authorization, path, connData, outcome, wf) ==
    IF isAPITokenValid(authorization, connData)
        THEN [ran |-> TRUE, response |-> apiMiddleware(isDev(connData), outcome, wf)]
        ELSE [ran |-> FALSE, response |-> tokenError(authorization, path, wf)]

-----------------------------------------------------------------------------
(* POST /api/open *)

HasPrefix(s, prefix) ==
    Len(s) >= Len(prefix) /\ SubSeq(s, 1, Len(prefix)) = prefix

\* The character a JSON escape sequence \c stands for (encoding/json
\* unquote); the backspace is written ^0008;.
UnescapeChar(c) ==
    CASE c = "n" -> "\n"
      [] c = "t" -> "\t"
      [] c = "r" -> "\r"
      [] c = "f" -> "\f"
      [] c = "b" -> "^0008;"
      [] OTHER -> c

\* The contents of a JSON string literal the scanner has accepted, escape
\* sequences resolved (encoding/json unquoteBytes).  \uXXXX gives the
\* character of that code point; a UTF-16 surrogate followed by the \uXXXX
\* of a low surrogate gives the one code point of the pair, and a surrogate
\* without its partner gives U+FFFD.  The characters that are not escaped
\* are taken over as they are.
RECURSIVE Unquote(_)
Unquote(s) ==
    LET printable == " !\"#$%&'()*+,-./0123456789:;<=>?@ABCDEFGHIJKLMNOPQRSTUVWXYZ"
                        \o "[\\]^_abcdefghijklmnopqrstuvwxyz{|}~"
        digits == "0123456789abcdef"
        upper == "ABCDEF"
        digit(v) == SubSeq(digits, v + 1, v + 1)
        isHex(c) == \E v \in 1..16 : c \in {SubSeq(digits, v, v), SubSeq(upper \o upper \o upper, v, v)}
        hex(c) == CHOOSE v \in 0..15 :
                      \/ c = SubSeq(digits, v + 1, v + 1)
                      \/ v >= 10 /\ c = SubSeq(upper, v - 9, v - 9)
        \* getu4: the number a \uXXXX at the head of t gives, -1 without one
        getu4(t) == IF /\ Len(t) >= 6
                       /\ SubSeq(t, 1, 2) = "\\u"
                       /\ \A k \in 3..6 : isHex(SubSeq(t, k, k))
                        THEN 4096 * hex(SubSeq(t, 3, 3)) + 256 * hex(SubSeq(t, 4, 4))
                                + 16 * hex(SubSeq(t, 5, 5)) + hex(SubSeq(t, 6, 6))
                    ELSE -1
        \* utf8.EncodeRune
        EncodeRune(r) ==
            CASE r = 94 -> "^^"
              [] r \in 32..95 -> SubSeq(printable, r - 31, r - 31)
              [] r \in 97..126 -> SubSeq(printable, r - 32, r - 32)
              [] r = 9 -> "\t"
              [] r = 10 -> "\n"
              [] r = 12 -> "\f"
              [] r = 13 -> "\r"
              [] OTHER ->
                    "^"
                        \o (IF r >= 1048576 THEN "1" ELSE "")
                        \o (IF r >= 65536 THEN digit((r \div 65536) % 16) ELSE "")
                        \o digit((r \div 4096) % 16) \o digit((r \div 256) % 16)
                        \o digit((r \div 16) % 16) \o digit(r % 16) \o ";"
    IN  IF Len(s) = 0 THEN ""
        ELSE IF Len(s) >= 6 /\ SubSeq(s, 1, 2) = "\\u"
            THEN CHOOSE out \in
                   { CASE rr \in 55296..56319 /\ rr1 \in 56320..57343 ->
                             \* utf16.DecodeRune of a valid pair; both consumed
                             EncodeRune(65536 + (rr - 55296) * 1024 + (rr1 - 56320))
                                \o Unquote(SubSeq(s, 13, Len(s)))
                       [] rr \in 55296..57343 ->
                             \* utf16.IsSurrogate without a pair: unicode.ReplacementChar
                             EncodeRune(65533) \o Unquote(SubSeq(s, 7, Len(s)))
                       [] OTHER -> EncodeRune(rr) \o Unquote(SubSeq(s, 7, Len(s)))
                     : rr \in {getu4(s)}, rr1 \in {getu4(SubSeq(s, 7, Len(s)))} } : TRUE
        ELSE IF Len(s) >= 2 /\ SubSeq(s, 1, 1) = "\\"
            THEN UnescapeChar(SubSeq(s, 2, 2)) \o Unquote(SubSeq(s, 3, Len(s)))
        ELSE SubSeq(s, 1, 1) \o Unquote(SubSeq(s, 2, Len(s)))

\* json.NewDecoder(r.Body).Decode(&url) with var url string.  The decoder
\* skips white space, scans one JSON value with the state machine of
\* encoding/json's scanner and leaves what follows the value unread; the
\* value is then stored into the string: a string literal is unquoted, null
\* leaves the string empty, every other value is a type error.  ok tells
\* err = nil.  The scanner is given as its transition table: in state from,
\* on a character of on, it goes to state to and pushes push on its parse
\* stack.  An entry whose on is empty tells what the state does with every
\* other character: to is "error" with the context of the message, "end"
\* for stateEndValue, or the state to go on in.
DecodeString(body) ==
    LET n == Len(body)
        space == {" ", "\t", "\r", "\n"}
        digit19 == {"1", "2", "3", "4", "5", "6", "7", "8", "9"}
        digit == digit19 \cup {"0"}
        lowerhex == digit \cup {"a", "b", "c", "d", "e", "f"}
        hexdigit == lowerhex \cup {"A", "B", "C", "D", "E", "F"}
        \* the control characters other than TAB, LF, FF and CR
        control == {"^00" \o h \o k \o ";" : h \in {"0", "1"}, k \in lowerhex}
                      \ {"^0009;", "^000a;", "^000c;", "^000d;"}
        table ==
            { [from |-> "BeginValue", on |-> space, to |-> "BeginValue", push |-> ""],
              [from |-> "BeginValue", on |-> {"{"}, to |-> "BeginStringOrEmpty", push |-> "key"],
              [from |-> "BeginValue", on |-> {"["}, to |-> "BeginValueOrEmpty", push |-> "array"],
              [from |-> "BeginValue", on |-> {"\""}, to |-> "InString", push |-> ""],
              [from |-> "BeginValue", on |-> {"-"}, to |-> "Neg", push |-> ""],
              [from |-> "BeginValue", on |-> {"0"}, to |-> "0", push |-> ""],
              [from |-> "BeginValue", on |-> {"t"}, to |-> "T", push |-> ""],
              [from |-> "BeginValue", on |-> {"f"}, to |-> "F", push |-> ""],
              [from |-> "BeginValue", on |-> {"n"}, to |-> "N", push |-> ""],
              [from |-> "BeginValue", on |-> digit19, to |-> "1", push |-> ""],
              [from |-> "BeginValue", on |-> {}, to |-> "error",
               push |-> "looking for beginning of value"],
              [from |-> "BeginString", on |-> space, to |-> "BeginString", push |-> ""],
              [from |-> "BeginString", on |-> {"\""}, to |-> "InString", push |-> ""],
              [from |-> "BeginString", on |-> {}, to |-> "error",
               push |-> "looking for beginning of object key string"],
              [from |-> "InString", on |-> {"\""}, to |-> "EndValue", push |-> ""],
              [from |-> "InString", on |-> {"\\"}, to |-> "InStringEsc", push |-> ""],
              [from |-> "InString", on |-> {"\t", "\n", "\r", "\f"} \cup control,
               to |-> "error", push |-> "in string literal"],
              [from |-> "InString", on |-> {}, to |-> "InString", push |-> ""],
              [from |-> "InStringEsc", on |-> {"b", "f", "n", "r", "t", "\\", "/", "\""},
               to |-> "InString", push |-> ""],
              [from |-> "InStringEsc", on |-> {"u"}, to |-> "InStringEscU", push |-> ""],
              [from |-> "InStringEsc", on |-> {}, to |-> "error",
               push |-> "in string escape code"],
              [from |-> "InStringEscU", on |-> hexdigit, to |-> "InStringEscU1", push |-> ""],
              [from |-> "InStringEscU", on |-> {}, to |-> "error",
               push |-> "in \\u hexadecimal character escape"],
              [from |-> "InStringEscU1", on |-> hexdigit, to |-> "InStringEscU12", push |-> ""],
              [from |-> "InStringEscU1", on |-> {}, to |-> "error",
               push |-> "in \\u hexadecimal character escape"],
              [from |-> "InStringEscU12", on |-> hexdigit, to |-> "InStringEscU123", push |-> ""],
              [from |-> "InStringEscU12", on |-> {}, to |-> "error",
               push |-> "in \\u hexadecimal character escape"],
              [from |-> "InStringEscU123", on |-> hexdigit, to |-> "InString", push |-> ""],
              [from |-> "InStringEscU123", on |-> {}, to |-> "error",
               push |-> "in \\u hexadecimal character escape"],
              [from |-> "Neg", on |-> {"0"}, to |-> "0", push |-> ""],
              [from |-> "Neg", on |-> digit19, to |-> "1", push |-> ""],
              [from |-> "Neg", on |-> {}, to |-> "error", push |-> "in numeric literal"],
              [from |-> "1", on |-> digit, to |-> "1", push |-> ""],
              [from |-> "1", on |-> {"."}, to |-> "Dot", push |-> ""],
              [from |-> "1", on |-> {"e", "E"}, to |-> "E", push |-> ""],
              [from |-> "1", on |-> {}, to |-> "end", push |-> ""],
              [from |-> "0", on |-> {"."}, to |-> "Dot", push |-> ""],
              [from |-> "0", on |-> {"e", "E"}, to |-> "E", push |-> ""],
              [from |-> "0", on |-> {}, to |-> "end", push |-> ""],
              [from |-> "Dot", on |-> digit, to |-> "Dot0", push |-> ""],
              [from |-> "Dot", on |-> {}, to |-> "error",
               push |-> "after decimal point in numeric literal"],
              [from |-> "Dot0", on |-> digit, to |-> "Dot0", push |-> ""],
              [from |-> "Dot0", on |-> {"e", "E"}, to |-> "E", push |-> ""],
              [from |-> "Dot0", on |-> {}, to |-> "end", push |-> ""],
              [from |-> "E", on |-> {"+", "-"}, to |-> "ESign", push |-> ""],
              [from |-> "E", on |-> digit, to |-> "E0", push |-> ""],
              [from |-> "E", on |-> {}, to |-> "error",
               push |-> "in exponent of numeric literal"],
              [from |-> "ESign", on |-> digit, to |-> "E0", push |-> ""],
              [from |-> "ESign", on |-> {}, to |-> "error",
               push |-> "in exponent of numeric literal"],
              [from |-> "E0", on |-> digit, to |-> "E0", push |-> ""],
              [from |-> "E0", on |-> {}, to |-> "end", push |-> ""],
              [from |-> "T", on |-> {"r"}, to |-> "Tr", push |-> ""],
              [from |-> "T", on |-> {}, to |-> "error",
               push |-> "in literal true (expecting 'r')"],
              [from |-> "Tr", on |-> {"u"}, to |-> "Tru", push |-> ""],
              [from |-> "Tr", on |-> {}, to |-> "error",
               push |-> "in literal true (expecting 'u')"],
              [from |-> "Tru", on |-> {"e"}, to |-> "EndValue", push |-> ""],
              [from |-> "Tru", on |-> {}, to |-> "error",
               push |-> "in literal true (expecting 'e')"],
              [from |-> "F", on |-> {"a"}, to |-> "Fa", push |-> ""],
              [from |-> "F", on |-> {}, to |-> "error",
               push |-> "in literal false (expecting 'a')"],
              [from |-> "Fa", on |-> {"l"}, to |-> "Fal", push |-> ""],
              [from |-> "Fa", on |-> {}, to |-> "error",
               push |-> "in literal false (expecting 'l')"],
              [from |-> "Fal", on |-> {"s"}, to |-> "Fals", push |-> ""],
              [from |-> "Fal", on |-> {}, to |-> "error",
               push |-> "in literal false (expecting 's')"],
              [from |-> "Fals", on |-> {"e"}, to |-> "EndValue", push |-> ""],
              [from |-> "Fals", on |-> {}, to |-> "error",
               push |-> "in literal false (expecting 'e')"],
              [from |-> "N", on |-> {"u"}, to |-> "Nu", push |-> ""],
              [from |-> "N", on |-> {}, to |-> "error",
               push |-> "in literal null (expecting 'u')"],
              [from |-> "Nu", on |-> {"l"}, to |-> "Nul", push |-> ""],
              [from |-> "Nu", on |-> {}, to |-> "error",
               push |-> "in literal null (expecting 'l')"],
              [from |-> "Nul", on |-> {"l"}, to |-> "EndValue", push |-> ""],
              [from |-> "Nul", on |-> {}, to |-> "error",
               push |-> "in literal null (expecting 'l')"],
              [from |-> "EndValue", on |-> {}, to |-> "end", push |-> ""],
              [from |-> "EndTop", on |-> {}, to |-> "end", push |-> ""] }
        \* scanner.error: the message for character c in a context.  The
        \* scanner reads bytes: of a character beyond ASCII it reports the
        \* first byte of its UTF-8 encoding, which quoteChar prints as the
        \* character of that code point.
        error(c, context) ==
            LET digits == "0123456789abcdef"
                RECURSIVE number(_)
                number(h) ==
                    IF Len(h) = 0 THEN 0
                    ELSE 16 * number(SubSeq(h, 1, Len(h) - 1))
                            + (CHOOSE v \in 0..15 :
                                  SubSeq(digits, v + 1, v + 1) = SubSeq(h, Len(h), Len(h)))
                byte(r) == IF r < 2048 THEN 192 + (r \div 64)
                           ELSE IF r < 65536 THEN 224 + (r \div 4096)
                           ELSE 240 + (r \div 262144)
            IN  [op |-> "error", step |-> "", ps |-> <<>>,
                 err |-> "invalid character "
                            \o (CASE c = "'" -> "'\\''"
                                  [] c = "\"" -> "'\"'"
                                  [] c = "\n" -> "'\\n'"
                                  [] c = "\t" -> "'\\t'"
                                  [] c = "\r" -> "'\\r'"
                                  [] c = "\f" -> "'\\f'"
                                  [] c = "\\" -> "'\\\\'"
                                  [] Len(c) <= 2 -> "'" \o c \o "'"
                                  [] OTHER ->
                                        CHOOSE quoted \in
                                          { CASE r = 7 -> "'\\a'"
                                              [] r = 8 -> "'\\b'"
                                              [] r = 11 -> "'\\v'"
                                              [] r < 32 \/ r = 127 ->
                                                    "'\\x" \o SubSeq(c, 4, 5) \o "'"
                                              [] r < 128 -> "'" \o c \o "'"
                                              [] OTHER ->
                                                    "'^00"
                                                       \o SubSeq(digits, (byte(r) \div 16) + 1,
                                                                 (byte(r) \div 16) + 1)
                                                       \o SubSeq(digits, (byte(r) % 16) + 1,
                                                                 (byte(r) % 16) + 1)
                                                       \o ";'"
                                            : r \in {number(SubSeq(c, 2, Len(c) - 1))} } : TRUE)
                            \o " " \o context]
        \* scanner.step.  The states BeginStringOrEmpty and BeginValueOrEmpty
        \* go on as BeginString and BeginValue unless the character closes
        \* the object or the array, which ends a value (the object's parse
        \* state becoming that of a finished pair); stateEndValue looks at
        \* the innermost parse state.
        Step(step, ps, c) ==
            LET closes == \/ step = "BeginStringOrEmpty" /\ c = "}"
                          \/ step = "BeginValueOrEmpty" /\ c = "]"
                from == CASE closes -> "EndValue"
                          [] step = "BeginStringOrEmpty" /\ c \notin space -> "BeginString"
                          [] step = "BeginValueOrEmpty" /\ c \notin space -> "BeginValue"
                          [] OTHER -> step
                same == step \in {"BeginStringOrEmpty", "BeginValueOrEmpty"} /\ from = step
                stack == IF closes /\ c = "}"
                            THEN Append(SubSeq(ps, 1, Len(ps) - 1), "value") ELSE ps
                inside == IF Len(stack) = 0 THEN "" ELSE stack[Len(stack)]
                outer == SubSeq(stack, 1, Len(stack) - 1)
                entries == IF same THEN {[from |-> step, on |-> space, to |-> step, push |-> ""]}
                           ELSE {t \in table : t.from = from /\ (c \in t.on \/ t.on = {})}
            IN  CHOOSE r \in
                  { CASE t.to = "error" -> error(c, t.push)
                      [] t.to # "end" ->
                            [op |-> "continue", step |-> t.to,
                             ps |-> IF t.push = "" THEN stack ELSE Append(stack, t.push),
                             err |-> ""]
                      [] Len(stack) = 0 ->
                            [op |-> "end", step |-> "EndTop", ps |-> stack, err |-> ""]
                      [] c \in space ->
                            [op |-> "continue", step |-> "EndValue", ps |-> stack, err |-> ""]
                      [] inside = "key" /\ c = ":" ->
                            [op |-> "continue", step |-> "BeginValue",
                             ps |-> Append(outer, "value"), err |-> ""]
                      [] inside = "value" /\ c = "," ->
                            [op |-> "continue", step |-> "BeginString",
                             ps |-> Append(outer, "key"), err |-> ""]
                      [] inside = "array" /\ c = "," ->
                            [op |-> "continue", step |-> "BeginValue", ps |-> stack,
                             err |-> ""]
                      [] (inside = "value" /\ c = "}") \/ (inside = "array" /\ c = "]") ->
                            [op |-> "endComposite",
                             step |-> IF Len(stack) = 1 THEN "EndTop" ELSE "EndValue",
                             ps |-> outer, err |-> ""]
                      [] OTHER ->
                            error(c, CASE inside = "key" -> "after object key"
                                       [] inside = "value" -> "after object key:value pair"
                                       [] OTHER -> "after array element")
                    : t \in {u \in entries :
                                u.on # {} \/ \A v \in entries : v.on = {}} } : TRUE
        \* the character of the body that begins at index i, as it is written
        character(i) ==
            IF SubSeq(body, i, i) # "^" THEN SubSeq(body, i, i)
            ELSE IF i < n /\ SubSeq(body, i + 1, i + 1) = "^" THEN "^^"
            ELSE IF \E k \in (i + 5)..(i + 7) : k <= n /\ SubSeq(body, k, k) = ";"
                THEN SubSeq(body, i, CHOOSE k \in (i + 5)..(i + 7) :
                                        /\ k <= n /\ SubSeq(body, k, k) = ";"
                                        /\ \A j \in (i + 5)..(k - 1) : SubSeq(body, j, j) # ";")
            ELSE "^"
        \* Decoder.readValue, one index of the body further: the scanner is
        \* given the character that begins there (skip counts the indices
        \* the character before still takes up), and at the end of the
        \* input a space.  When the value has ended, last is the index of
        \* its last character, or err the error; an object or array that
        \* empties the parse stack ends the value with its closing
        \* character.
        scan(state, i) ==
            IF state.done THEN state
            ELSE IF state.skip > 0 THEN [state EXCEPT !.skip = @ - 1]
            ELSE CHOOSE value \in UNION
                { { CASE i > n /\ r.op = "end" ->
                            [state EXCEPT !.done = TRUE, !.last = n]
                      [] i > n /\ \E k \in 1..n : SubSeq(body, k, k) \notin space ->
                            [state EXCEPT !.done = TRUE, !.err = "unexpected EOF"]
                      [] i > n -> [state EXCEPT !.done = TRUE, !.err = "EOF"]
                      [] r.op = "end" -> [state EXCEPT !.done = TRUE, !.last = i - 1]
                      [] r.op = "error" -> [state EXCEPT !.done = TRUE, !.err = r.err]
                      [] r.op = "endComposite" /\ Len(r.ps) = 0 ->
                            [state EXCEPT !.done = TRUE, !.last = i]
                      [] OTHER -> [state EXCEPT !.step = r.step, !.ps = r.ps,
                                                !.skip = Len(c) - 1]
                    : r \in {Step(state.step, state.ps, c)} }
                  : c \in {IF i > n THEN " " ELSE character(i)} } : TRUE
        \* the indices from a to b, one after the other
        RECURSIVE readValue(_, _, _)
        readValue(state, a, b) ==
            IF a = b THEN scan(state, a)
            ELSE CHOOSE value \in
                    { readValue(half, ((a + b) \div 2) + 1, b)
                      : half \in {readValue(state, a, (a + b) \div 2)} } : TRUE
        \* the first character of the value tells its kind
        first == CHOOSE k \in 1..n : /\ SubSeq(body, k, k) \notin space
                                     /\ \A j \in 1..(k - 1) : SubSeq(body, j, j) \in space
        kind == CASE SubSeq(body, first, first) = "\"" -> "string"
                  [] SubSeq(body, first, first) = "n" -> "null"
                  [] SubSeq(body, first, first) \in {"t", "f"} -> "bool"
                  [] SubSeq(body, first, first) = "{" -> "object"
                  [] SubSeq(body, first, first) = "[" -> "array"
                  [] OTHER -> "number"
    IN  CHOOSE d \in
          { CASE read.err # "" -> [ok |-> FALSE, s |-> "", err |-> read.err]
              [] kind = "string" ->
                    [ok |-> TRUE, s |-> Unquote(SubSeq(body, first + 1, read.last - 1)),
                     err |-> ""]
              [] kind = "null" -> [ok |-> TRUE, s |-> "", err |-> ""]
              [] OTHER ->
                    [ok |-> FALSE, s |-> "",
                     err |-> "json: cannot unmarshal " \o kind
                                \o " into Go value of type string"]
            : read \in {readValue([step |-> "BeginValue", ps |-> <<>>, skip |-> 0,
                                  done |-> FALSE, last |-> 0, err |-> ""],
                                 1, n + 1)} } : TRUE

whitelistedURLs ==
    { "https://shiftcrypto.ch/contact",
      "https://shiftcrypto.ch/shop",
      "https://shiftcrypto.ch/backup",
      "https://www.cryptocompare.com",
      "https://bitcoincore.org/en/2016/01/26/segwit-benefits/",
      "https://en.bitcoin.it/wiki/Bech32_adoption" }

\* Each pattern is "^" followed by literal text, one of them with an optional
\* group: a pattern is given by the set of literal prefixes it accepts.
whitelistedPatterns ==
    << {"https://blockstream.info/tx/", "https://blockstream.info/testnet/tx/"},
       {"http://explorer.litecointools.com/tx/"},
       {"https://insight.litecore.io/tx/"},
       {"https://etherscan.io/tx/"},
       {"https://rinkeby.etherscan.io/tx/"},
       {"https://ropsten.etherscan.io/tx/"} >>

\* fmt.Sprintf("^%s", regexp.QuoteMeta(downloadDir)): the directory's path
\* as literal text, anchored at the start only.
downloadDirPattern(downloadDir) == {downloadDir}

\* regexp.MustCompile(pattern).MatchString(url)
MatchString(pattern, url) == \E prefix \in pattern : HasPrefix(url, prefix)

\* The value of blocked after the two loops.
Blocked(url, patterns) ==
    /\ url \notin whitelistedURLs
    /\ \A i \in 1..Len(patterns) : ~MatchString(patterns[i], url)

\* A mutant of postOpenHandler that reads the field "url" of a JSON object.
postOpenHandlerObject(body, downloads, openErr) ==
    LET prefix == "{\"url\":"
        inner == IF HasPrefix(body, prefix) /\ Len(body) > Len(prefix)
                    THEN SubSeq(body, Len(prefix) + 1, Len(body) - 1) ELSE ""
        d == DecodeString(inner)
    IN  IF ~d.ok THEN [outcome |-> Returns(NilValue, <<"EOF">>), calls |-> <<>>]
        ELSE IF downloads.err # <<>>
            THEN [outcome |-> Returns(NilValue, downloads.err), calls |-> <<>>]
        ELSE IF Blocked(d.s, Append(whitelistedPatterns, downloadDirPattern(downloads.dir)))
            THEN [outcome |-> Returns(NilValue, <<"Blocked /open with url: " \o d.s>>),
                  calls |-> <<>>]
        ELSE [outcome |-> Returns(NilValue, openErr), calls |-> <<d.s>>]

\* A mutant of postOpenHandler that opens an allow-listed literal at once,
\* before the downloads directory is resolved.
postOpenHandlerLiteralFirst(body, downloads, openErr) ==
    LET d == DecodeString(body)
    IN  IF ~d.ok THEN [outcome |-> Returns(NilValue, <<d.err>>), calls |-> <<>>]
        ELSE IF d.s \in whitelistedURLs
            THEN [outcome |-> Returns(NilValue, openErr), calls |-> <<d.s>>]
        ELSE IF downloads.err # <<>>
            THEN [outcome |-> Returns(NilValue, downloads.err), calls |-> <<>>]
        ELSE IF Blocked(d.s, Append(whitelistedPatterns, downloadDirPattern(downloads.dir)))
            THEN [outcome |-> Returns(NilValue, <<"Blocked /open with url: " \o d.s>>),
                  calls |-> <<>>]
        ELSE [outcome |-> Returns(NilValue, openErr), calls |-> <<d.s>>]

\* postOpenHandler: downloads is the result of utilConfig.DownloadsDir(),
\* openErr what system.Open returns when it is called.  calls lists the URLs
\* handed to system.Open.
postOpenHandler(body, downloads, openErr) ==
    LET d == DecodeString(body)
    IN  IF ~d.ok THEN [outcome |-> Returns(NilValue, <<d.err>>), calls |-> <<>>]
        ELSE IF downloads.err # <<>>
            THEN [outcome |-> Returns(NilValue, downloads.err), calls |-> <<>>]
        ELSE IF Blocked(d.s, Append(whitelistedPatterns, downloadDirPattern(downloads.dir)))
            THEN [outcome |-> Returns(NilValue, <<"Blocked /open with url: " \o d.s>>),
                  calls |-> <<>>]
        ELSE [outcome |-> Returns(NilValue, openErr), calls |-> <<d.s>>]

-----------------------------------------------------------------------------
(* The fiat rates store (server.go, second part).  state is store.state;    *)
(* config is what setConfig has written so far; pending holds the config    *)
(* writes that have not completed, each with the list its then-callback     *)
(* will put into the store; calls records the selectFiat and unselectFiat   *)
(* calls, and for each whether it was started while the write of a call on  *)
(* another fiat was pending, or had its write pending when one started;     *)
(* load tells whether the config requested at module load has arrived:      *)
(* "pending" before, "clean" when it arrived before any call and left the   *)
(* active fiat in the selected list, "other" else.                          *)

\* new Store<SharedProps>({active: 'CHF', selected: ['USD', 'EUR', 'CHF']}),
\* the config holding the same values.
NewStore ==
    [state |-> [active |-> "CHF", selected |-> <<"USD", "EUR", "CHF">>],
     config |-> [mainFiat |-> "CHF", fiatList |-> <<"USD", "EUR", "CHF">>],
     pending |-> <<>>,
     calls |-> <<>>,
     reinitialized |-> 0,
     started |-> 0,
     load |-> "pending"]

\* The fiats the functions are called with.
Fiats == {"CHF", "EUR", "GBP", "JPY"}

\* Array.prototype.indexOf, 0-based, -1 when absent.
indexOf(selected, fiat) ==
    IF \E i \in 1..Len(selected) : selected[i] = fiat
        THEN (CHOOSE i \in 1..Len(selected) :
                 selected[i] = fiat /\ \A j \in 1..(i - 1) : selected[j] # fiat) - 1
    ELSE -1

\* setConfig({backend: {key: value}}): the write is on its way; call is the
\* entry of calls whose then-callback waits for it, 0 when nothing waits.
setConfig(s, key, value, call) ==
    [s EXCEPT !.pending = Append(@, [key |-> key, value |-> value, call |-> call])]

\* The start of selectFiat (op "selectFiat", selected the list with fiat
\* appended) or unselectFiat (op "unselectFiat", selected the list filtered):
\* the list is computed from the store as it is now and handed to setConfig.
selectedFiat(s, op, fiat, selected) ==
    LET waiting == {s.pending[i].call : i \in 1..Len(s.pending)} \ {0}
        other == {c \in waiting : s.calls[c].fiat # fiat}
        marked == [c \in 1..Len(s.calls) |->
                      IF c \in other THEN [s.calls[c] EXCEPT !.overlapped = TRUE]
                      ELSE s.calls[c]]
        logged == Append(marked, [op |-> op, fiat |-> fiat, overlapped |-> other # {}])
    IN  setConfig([s EXCEPT !.calls = logged], "fiatList", selected, Len(logged))

\* selectFiat(fiat) up to the call of setConfig
selectFiat(s, fiat) == selectedFiat(s, "selectFiat", fiat, Append(s.state.selected, fiat))

\* setActiveFiat(fiat)
setActiveFiat(s, fiat) ==
    LET s1 == IF indexOf(s.state.selected, fiat) = -1 THEN selectFiat(s, fiat) ELSE s
    IN  setConfig([s1 EXCEPT !.state.active = fiat], "mainFiat", <<fiat>>, 0)

-----------------------------------------------------------------------------
(* POST /api/account-add and POST /api/test/register.  input holds what the *)
(* request carries and what the calls outside this package return:          *)
(* testing is backend.Testing(), decodeErr the error of decoding the body   *)
(* into map[string]string, xpubVersion the version                          *)
(* btc.XPubVersionForScriptType gives for the coin and the script type, the *)
(* other fields are entries of the decoded map.                             *)

\* No business request is in flight.
NoBackendRequest ==
    [request |-> "none",
     input |-> [testing |-> FALSE, decodeErr |-> <<>>, coinCode |-> "", scriptType |-> "",
                xpubVersion |-> "", accountName |-> "", extendedPublicKey |-> "",
                pin |-> ""],
     calls |-> <<>>]

\* handlers.backend.Coin(coinCode): two coins are known, one of them a
\* *btc.Coin.
Coin(coinCode) ==
    CASE coinCode = "btc" -> [err |-> <<>>, code |-> "btc", type |-> "btc.Coin",
                              net |-> "mainnet"]
      [] coinCode = "eth" -> [err |-> <<>>, code |-> "eth", type |-> "eth.Coin",
                              net |-> "mainnet"]
      [] OTHER -> [err |-> <<"unknown coin " \o coinCode>>, code |-> "", type |-> "",
                   net |-> ""]

\* signing.DecodeScriptType(scriptType)
DecodeScriptType(scriptType) ==
    IF scriptType \in {"p2pkh", "p2wpkh-p2sh", "p2wpkh"} THEN <<>>
    ELSE <<"Unknown script type: " \o scriptType>>

\* A mutant of NewKeyFromString that takes every well-formed key for a
\* public key.
NewKeyFromStringPublic(key) ==
    IF key \in {"xpub", "ypub", "zpub", "tpub", "xprv", "tprv"}
        THEN [err |-> <<>>, private |-> FALSE, version |-> key]
    ELSE [err |-> <<"invalid key">>, private |-> FALSE, version |-> ""]

\* hdkeychain.NewKeyFromString(key), with what IsPrivate() answers for the
\* parsed key and the version bytes IsForNet() compares.  A well-formed key
\* is given by its version prefix, which plays no part in parsing; any other
\* text does not parse.
NewKeyFromString(key) ==
    CASE key \in {"xpub", "ypub", "zpub", "tpub"} ->
            [err |-> <<>>, private |-> FALSE, version |-> key]
      [] key \in {"xprv", "tprv"} ->
            [err |-> <<>>, private |-> TRUE, version |-> key]
      [] OTHER -> [err |-> <<"invalid key">>, private |-> FALSE, version |-> ""]

\* fmt.Sprintf("%s-%s", configuration.Hash(), coin.Code()); the hash of the
\* configuration is stood for by the text of script type and key.
accountCode(scriptType, key, coinCode) == scriptType \o ":" \o key \o "-" \o coinCode

\* postAddAccountHandler; calls lists the calls made on the backend.
postAddAccountHandler(input) ==
    LET coin == Coin(input.coinCode)
        scriptErr == DecodeScriptType(input.scriptType)
        extendedPublicKey == NewKeyFromString(input.extendedPublicKey)
        failure(code) == [outcome |-> Returns(ResultMap(FALSE, "errorCode", code), <<>>),
                          calls |-> <<>>]
        code == accountCode(input.scriptType, input.extendedPublicKey, coin.code)
    IN  IF input.decodeErr # <<>>
            THEN [outcome |-> Returns(NilValue, input.decodeErr), calls |-> <<>>]
        ELSE IF coin.err # <<>>
            THEN [outcome |-> Returns(NilValue, coin.err), calls |-> <<>>]
        ELSE IF scriptErr # <<>>
            THEN [outcome |-> Returns(NilValue, scriptErr), calls |-> <<>>]
        ELSE IF extendedPublicKey.err # <<>> THEN failure("xpubInvalid")
        ELSE IF extendedPublicKey.private THEN failure("xprivEntered")
        ELSE IF coin.type = "btc.Coin" /\ extendedPublicKey.version # input.xpubVersion
            THEN failure("xpubWrongNet")
        ELSE [outcome |-> Returns(ResultMap(TRUE, "accountCode", code), <<>>),
              calls |-> <<[fn |-> "CreateAndAddAccount", arg |-> code]>>]

\* A mutant of postRegisterTestKeystoreHandler without the testing check.
postRegisterTestKeystoreHandlerAlways(input) ==
    IF input.decodeErr # <<>>
        THEN [outcome |-> Returns(NilValue, input.decodeErr), calls |-> <<>>]
    ELSE [outcome |-> Returns(BoolValue(TRUE), <<>>),
          calls |-> <<[fn |-> "RegisterTestKeystore", arg |-> input.pin]>>]

\* postRegisterTestKeystoreHandler
postRegisterTestKeystoreHandler(input) ==
    IF ~input.testing
        THEN [outcome |-> Returns(NilValue, <<"Test keystore not available">>),
              calls |-> <<>>]
    ELSE IF input.decodeErr # <<>>
        THEN [outcome |-> Returns(NilValue, input.decodeErr), calls |-> <<>>]
    ELSE [outcome |-> Returns(BoolValue(TRUE), <<>>),
          calls |-> <<[fn |-> "RegisterTestKeystore", arg |-> input.pin]>>]

-----------------------------------------------------------------------------
(* Routes.  wrap = "api": mounted through getAPIRouter; wrap = "raw": the   *)
(* handler is mounted on the router as it is.                               *)

Route(method, path, wrap) == [method |-> method, path |-> path, wrap |-> wrap]

\* getAPIRouter(subrouter)(path, f).Methods(method)
getAPIRouter(prefix, method, path) == Route(method, prefix \o path, "api")

\* apiRouter.HandleFunc("/events", handlers.eventsHandler)
eventsRoute == Route("*", "/api/events", "raw")

\* The routes NewHandlers registers, in order.
StaticRoutes ==
    << getAPIRouter("/api", "GET", "/qr"),
       getAPIRouter("/api", "GET", "/config"),
       getAPIRouter("/api", "GET", "/config/default"),
       getAPIRouter("/api", "POST", "/config"),
       getAPIRouter("/api", "POST", "/open"),
       getAPIRouter("/api", "GET", "/update"),
       getAPIRouter("/api", "GET", "/version"),
       getAPIRouter("/api", "GET", "/testing"),
       getAPIRouter("/api", "POST", "/account-add"),
       getAPIRouter("/api", "GET", "/accounts"),
       getAPIRouter("/api", "GET", "/accounts-status"),
       getAPIRouter("/api", "POST", "/test/register"),
       getAPIRouter("/api", "POST", "/test/deregister"),
       getAPIRouter("/api", "GET", "/rates"),
       getAPIRouter("/api", "GET", "/coins/convertToFiat"),
       getAPIRouter("/api", "GET", "/coins/convertFromFiat"),
       getAPIRouter("/api", "GET", "/coins/tltc/headers/status"),
       getAPIRouter("/api", "GET", "/coins/tbtc/headers/status"),
       getAPIRouter("/api", "GET", "/coins/ltc/headers/status"),
       getAPIRouter("/api", "GET", "/coins/btc/headers/status"),
       getAPIRouter("/api", "POST", "/certs/download"),
       getAPIRouter("/api", "POST", "/certs/check"),
       getAPIRouter("/api/devices", "GET", "/registered"),
       eventsRoute >>

\* The subtree a sub-handler constructor mounts: every route below
\* /api/<kind>/<key> is registered through getAPIRouter of that subrouter.
SubtreeRoute(kind, key) == getAPIRouter("/api/" \o kind \o "/" \o key, "*", "/...")

-----------------------------------------------------------------------------
(* Handler registries *)

RegKeys == ({"account"} \X AccountCodes) \cup ({"devices"} \X DeviceIDs)

\* The n-th sub-handler instance constructed for a key.
Instance(kind, key, n) == <<kind, key, n>>

KindOf(op) == IF op \in {"accountInit", "accountUninit"} THEN "account" ELSE "devices"

KeysOf(kind) == IF kind = "account" THEN AccountCodes ELSE DeviceIDs

\* map[string]*Handlers{}
EmptyMap == [k \in {} |-> <<>>]

IdleProc == [pc |-> "idle", op |-> "none", key |-> "", ret |-> <<>>]

HandlersMap(kind) == IF kind = "account" THEN accountHandlersMap ELSE deviceHandlersMap

-----------------------------------------------------------------------------
(* Event bridge *)

SendChanCap == 1

NoConn == [state |-> "none", quit |-> FALSE, sendChan |-> <<>>, writer |-> "none",
           relay |-> "none", event |-> 0, written |-> <<>>]

Digit(d) == SubSeq("0123456789", d + 1, d + 1)

RECURSIVE ToDecimal(_)
ToDecimal(n) == IF n < 10 THEN Digit(n) ELSE ToDecimal(n \div 10) \o Digit(n % 10)

\* jsonp.MustMarshal of an event; the events of the model are JSON numbers.
MustMarshal(event) == ToDecimal(event)

\* No POST /api/open call is in flight.
NoOpen == [body |-> "", downloads |-> [dir |-> "", err |-> <<>>], openErr |-> <<>>,
           calls |-> <<>>]

\* serve() has not been called yet.  main and go are the positions of
\* serve() and of the goroutine it starts; failed names the call that failed.
NotStarted ==
    [main |-> "FreePort", go |-> "none", exited |-> FALSE, failed |-> "none",
     port |-> 0, privateKey |-> FALSE, certificate |-> <<>>, pemFile |-> "none",
     bound |-> FALSE, returned |-> <<>>, served |-> 0]

\* The lifecycle callbacks NewHandlers registers on the backend.
Callbacks == {"OnAccountInit", "OnAccountUninit", "OnDeviceInit", "OnDeviceUninit"}

Step(do, route, callback) == [do |-> do, route |-> route, callback |-> callback]

\* A mutant of NewHandlers that starts the backend before registering the
\* routes and the callbacks.
NewHandlersStepsStartFirst ==
    << Step("Start", 0, "") >>
    \o [i \in 1..(Len(StaticRoutes) - 1) |-> Step("route", i, "")]
    \o << Step("callback", 0, "OnAccountInit"),
          Step("callback", 0, "OnAccountUninit"),
          Step("callback", 0, "OnDeviceInit"),
          Step("callback", 0, "OnDeviceUninit"),
          Step("route", Len(StaticRoutes), "") >>

\* The statements of NewHandlers that register something, in program order:
\* the routes mounted through getAPIRouter, the four callbacks, the /events
\* route, and handlers.backendEvents = backend.Start().
NewHandlersSteps ==
    [i \in 1..(Len(StaticRoutes) - 1) |-> Step("route", i, "")]
    \o << Step("callback", 0, "OnAccountInit"),
          Step("callback", 0, "OnAccountUninit"),
          Step("callback", 0, "OnDeviceInit"),
          Step("callback", 0, "OnDeviceUninit"),
          Step("route", Len(StaticRoutes), ""),
          Step("Start", 0, "") >>

\* NewHandlers has not registered anything yet.
NotConstructed ==
    [pc |-> 1, callbacks |-> {}, started |-> FALSE, handled |-> <<>>, missed |-> <<>>]

\* NewHandlers has returned.
Constructed ==
    [pc |-> Len(NewHandlersSteps) + 1, callbacks |-> Callbacks, started |-> TRUE,
     handled |-> <<>>, missed |-> <<>>]

-----------------------------------------------------------------------------
(* Initial state: NewHandlers has returned. *)

NoRequest == [handler |-> "none", path |-> "", authorization |-> "",
              outcome |-> Returns(NilValue, <<>>), wf |-> {},
              gateChecked |-> FALSE, ran |-> FALSE,
              response |-> [status |-> 0, contentType |-> "", allowOrigin |-> "",
                            body |-> <<>>, escaped |-> FALSE]]

Init ==
    /\ apiData \in {NewConnectionData(port, token) : port \in Ports, token \in Tokens}
    /\ router = StaticRoutes
    /\ resp = NoRequest
    /\ accountHandlersMap = EmptyMap
    /\ deviceHandlersMap = EmptyMap
    /\ handlersMapLock = NoProc
    /\ constructed = [rk \in RegKeys |-> 0]
    /\ active = {}
    /\ initSeen = {}
    /\ proc = [p \in Procs |-> IdleProc]
    /\ backendEvents = <<>>
    /\ emitted = 0
    /\ conns = [c \in Conns |-> NoConn]
    /\ admittedBefore = FALSE
    /\ opener = NoOpen
    /\ srv = NotStarted
    /\ construction = Constructed
    /\ backend = NoBackendRequest
    /\ store = NewStore

-----------------------------------------------------------------------------
(* Requests *)

Authorizations == {"", "Basic ", "Basic tok", "Basic tok2", "tok"}

Values == {BoolValue(TRUE), StringValue("a\"<b"), SuccessMap(FALSE), NaNValue}

Messages == {"boom", "bad \"x\""}

Outcomes ==
    {Returns(v, <<>>) : v \in Values}
    \cup {Returns(v, <<m>>) : v \in {NilValue, BoolValue(TRUE)}, m \in {"bad \"x\""}}
    \cup {Panics(m) : m \in Messages}

\* Which Write calls on the response fail: none, the first, or all of them.
WriteFailures == {{}, {1}, {1, 2}}

\* A request on the i-th route, a route mounted through getAPIRouter.
APIRequest(i, authorization, outcome, wf) ==
    /\ resp = NoRequest
    /\ i \in 1..Len(router)
    /\ router[i].wrap = "api"
    /\ LET r == ensureAPITokenValid(authorization, router[i].path, apiData, outcome, wf)
       IN  /\ resp' = [handler |-> "api", path |-> router[i].path,
                        authorization |-> authorization, outcome |-> outcome, wf |-> wf,
                        gateChecked |-> TRUE, ran |-> r.ran, response |-> r.response]
           /\ admittedBefore' = (admittedBefore \/ r.ran)
    /\ UNCHANGED <<store, apiData, router, opener, backend, registryVars, bridgeVars, serverVars>>

\* eventsHandler: upgrade the connection (panic when that fails), start the
\* websocket loops (runWebsocket) and the goroutine relaying backend events.
eventsHandler(c, upgradeOk) ==
    IF upgradeOk
        THEN conns' = [conns EXCEPT ![c] =
                 [state |-> "open", quit |-> FALSE, sendChan |-> <<>>, writer |-> "run",
                  relay |-> "outer", event |-> 0, written |-> <<>>]]
        ELSE UNCHANGED conns

\* A request on the i-th route, a route whose handler is mounted as it is.
EventsRequest(i, c, authorization, upgradeOk) ==
    /\ resp = NoRequest
    /\ i \in 1..Len(router)
    /\ router[i].wrap = "raw"
    /\ conns[c].state = "none"
    /\ \A d \in Conns : d < c => conns[d].state # "none"
    /\ eventsHandler(c, upgradeOk)
    /\ resp' = [handler |-> "events", path |-> router[i].path,
                authorization |-> authorization, outcome |-> Returns(NilValue, <<>>),
                wf |-> {}, gateChecked |-> FALSE, ran |-> TRUE,
                response |-> [status |-> IF upgradeOk THEN StatusSwitchingProtocols
                                                      ELSE StatusBadRequest,
                              contentType |-> "", allowOrigin |-> "", body |-> <<>>,
                              escaped |-> ~upgradeOk]]
    /\ UNCHANGED <<store, apiData, router, admittedBefore, opener, backend, registryVars,
                   backendEvents, emitted, serverVars>>

\* The transport has delivered the response; the server is ready for the
\* next request.
Respond ==
    /\ resp # NoRequest
    /\ resp' = NoRequest
    /\ opener' = NoOpen
    /\ backend' = NoBackendRequest
    /\ UNCHANGED <<store, apiData, router, admittedBefore, registryVars, bridgeVars, serverVars>>

-----------------------------------------------------------------------------
(* Lifecycle callbacks and getAccountHandlers / getDeviceHandlers.          *)
(* Each p in Procs is a goroutine on which the backend delivers one         *)
(* lifecycle event at a time.                                               *)

\* backend.OnAccountInit callback: calls getAccountHandlers(account.Code()).
OnAccountInit(p, code) ==
    /\ proc[p].pc = "idle"
    /\ proc' = [proc EXCEPT ![p] = [pc |-> "lock", op |-> "accountInit", key |-> code,
                                    ret |-> <<>>]]
    /\ initSeen' = initSeen \cup {<<"account", code>>}
    /\ UNCHANGED <<store, serverVars, gateVars, bridgeVars, accountHandlersMap, deviceHandlersMap,
                   handlersMapLock, constructed, active>>

\* backend.OnAccountUninit callback: calls getAccountHandlers(account.Code()).
OnAccountUninit(p, code) ==
    /\ proc[p].pc = "idle"
    /\ proc' = [proc EXCEPT ![p] = [pc |-> "lock", op |-> "accountUninit", key |-> code,
                                    ret |-> <<>>]]
    /\ UNCHANGED <<store, serverVars, gateVars, bridgeVars, accountHandlersMap, deviceHandlersMap,
                   handlersMapLock, constructed, active, initSeen>>

\* backend.OnDeviceInit callback: only a *bitbox.Device reaches
\* getDeviceHandlers; for any other type the callback returns at once.
OnDeviceInit(p, deviceID) ==
    /\ proc[p].pc = "idle"
    /\ proc' = [proc EXCEPT ![p] =
           IF DeviceType(deviceID) = "bitbox.Device"
              THEN [pc |-> "lock", op |-> "deviceInit", key |-> deviceID, ret |-> <<>>]
              ELSE IdleProc]
    /\ initSeen' = initSeen \cup {<<"devices", deviceID>>}
    /\ UNCHANGED <<store, serverVars, gateVars, bridgeVars, accountHandlersMap, deviceHandlersMap,
                   handlersMapLock, constructed, active>>

\* backend.OnDeviceUninit callback: calls getDeviceHandlers(deviceID).
OnDeviceUninit(p, deviceID) ==
    /\ proc[p].pc = "idle"
    /\ proc' = [proc EXCEPT ![p] = [pc |-> "lock", op |-> "deviceUninit", key |-> deviceID,
                                    ret |-> <<>>]]
    /\ UNCHANGED <<store, serverVars, gateVars, bridgeVars, accountHandlersMap, deviceHandlersMap,
                   handlersMapLock, constructed, active, initSeen>>

\* A mutant of the lock that lets every caller in.
CanLockAlways(holder) == TRUE

\* locker.Locker: Lock() succeeds only when nobody holds the lock.
CanLock(holder) == holder = NoProc

\* defer handlersMapLock.Lock()(): acquire the lock on entry.
Lock(p) ==
    /\ proc[p].pc = "lock"
    /\ CanLock(handlersMapLock)
    /\ handlersMapLock' = p
    /\ proc' = [proc EXCEPT ![p].pc = "check"]
    /\ UNCHANGED <<store, serverVars, gateVars, bridgeVars, accountHandlersMap, deviceHandlersMap,
                   constructed, active, initSeen>>

\* if _, ok := handlersMap[key]; !ok
Check(p) ==
    /\ proc[p].pc = "check"
    /\ proc' = [proc EXCEPT ![p].pc =
           IF proc[p].key \in DOMAIN HandlersMap(KindOf(proc[p].op)) THEN "read"
                                                                     ELSE "create"]
    /\ UNCHANGED <<store, serverVars, gateVars, bridgeVars, accountHandlersMap, deviceHandlersMap,
                   handlersMapLock, constructed, active, initSeen>>

\* A mutant of the map store that starts a new map with the one entry.
StoreFresh(m, key, v) == [k \in {key} |-> v]

\* m[key] = v on a Go map.
Store(m, key, v) == [k \in DOMAIN m \cup {key} |-> IF k = key THEN v ELSE m[k]]

\* handlersMap[key] = NewHandlers(getAPIRouter(
\*     apiRouter.PathPrefix(fmt.Sprintf("/<kind>/%s", key)).Subrouter()), log)
Create(p) ==
    /\ proc[p].pc = "create"
    /\ LET kind == KindOf(proc[p].op)
           key == proc[p].key
           n == constructed[<<kind, key>>] + 1
       IN  /\ router' = Append(router, SubtreeRoute(kind, key))
           /\ constructed' = [constructed EXCEPT ![<<kind, key>>] = n]
           /\ IF kind = "account"
                 THEN /\ accountHandlersMap' =
                            Store(accountHandlersMap, key, Instance(kind, key, n))
                      /\ UNCHANGED deviceHandlersMap
                 ELSE /\ deviceHandlersMap' =
                            Store(deviceHandlersMap, key, Instance(kind, key, n))
                      /\ UNCHANGED accountHandlersMap
    /\ proc' = [proc EXCEPT ![p].pc = "read"]
    /\ UNCHANGED <<store, apiData, resp, admittedBefore, opener, backend, bridgeVars, serverVars,
                   handlersMapLock, active, initSeen>>

\* A mutant of the return that leaves the lock held.
ReturnHolding(p) ==
    /\ proc[p].pc = "read"
    /\ proc' = [proc EXCEPT ![p].pc = "call",
                            ![p].ret = HandlersMap(KindOf(proc[p].op))[proc[p].key]]
    /\ UNCHANGED <<store, serverVars, gateVars, bridgeVars, accountHandlersMap, deviceHandlersMap,
                   handlersMapLock, constructed, active, initSeen>>

\* return handlersMap[key]; the deferred unlock runs.
Return(p) ==
    /\ proc[p].pc = "read"
    /\ proc' = [proc EXCEPT ![p].pc = "call",
                            ![p].ret = HandlersMap(KindOf(proc[p].op))[proc[p].key]]
    /\ handlersMapLock' = NoProc
    /\ UNCHANGED <<store, serverVars, gateVars, bridgeVars, accountHandlersMap, deviceHandlersMap,
                   constructed, active, initSeen>>

\* .Init(entity) or .Uninit() on the returned sub-handler.
CallLifecycle(p) ==
    /\ proc[p].pc = "call"
    /\ active' = IF proc[p].op \in {"accountInit", "deviceInit"}
                    THEN active \cup {proc[p].ret}
                    ELSE active \ {proc[p].ret}
    /\ proc' = [proc EXCEPT ![p] = IdleProc]
    /\ UNCHANGED <<store, serverVars, gateVars, bridgeVars, accountHandlersMap, deviceHandlersMap,
                   handlersMapLock, constructed, initSeen>>

RegistryNext ==
    \/ \E p \in Procs, code \in AccountCodes : OnAccountInit(p, code)
    \/ \E p \in Procs, code \in AccountCodes : OnAccountUninit(p, code)
    \/ \E p \in Procs, deviceID \in DeviceIDs : OnDeviceInit(p, deviceID)
    \/ \E p \in Procs, deviceID \in DeviceIDs : OnDeviceUninit(p, deviceID)
    \/ \E p \in Procs : Lock(p)
    \/ \E p \in Procs : Check(p)
    \/ \E p \in Procs : Create(p)
    \/ \E p \in Procs : Return(p)
    \/ \E p \in Procs : CallLifecycle(p)

\* A mutant of the aborted store that stores the value all the same.
StoreAbortedKeeps(m, key, v) == Store(m, key, v)

\* m[key] = f() when f panics: the assignment is not carried out.
StoreAborted(m, key, v) == m

\* The sub-handler constructor panics inside get-or-create.  The subrouter
\* has been mounted by then (PathPrefix(...).Subrouter() is evaluated before
\* the constructor is called); the store is not carried out, the deferred
\* unlock runs, and the panic leaves the callback before Init or Uninit.
CreatePanics(p) ==
    /\ proc[p].pc = "create"
    /\ constructed[<<KindOf(proc[p].op), proc[p].key>>] < MaxConstructions
    /\ LET kind == KindOf(proc[p].op)
           key == proc[p].key
           n == constructed[<<kind, key>>] + 1
       IN  /\ router' = Append(router, SubtreeRoute(kind, key))
           /\ constructed' = [constructed EXCEPT ![<<kind, key>>] = n]
           /\ IF kind = "account"
                 THEN /\ accountHandlersMap' =
                            StoreAborted(accountHandlersMap, key, Instance(kind, key, n))
                      /\ UNCHANGED deviceHandlersMap
                 ELSE /\ deviceHandlersMap' =
                            StoreAborted(deviceHandlersMap, key, Instance(kind, key, n))
                      /\ UNCHANGED accountHandlersMap
    /\ handlersMapLock' = NoProc
    /\ proc' = [proc EXCEPT ![p] = IdleProc]
    /\ UNCHANGED <<store, apiData, resp, admittedBefore, opener, backend, bridgeVars, serverVars,
                   active, initSeen>>

\* Device events only: two keys of one registry are enough to tell a key
\* whose construction failed from the others.
FaultyRegistryNext ==
    \/ \E p \in Procs, deviceID \in DeviceIDs : OnDeviceInit(p, deviceID)
    \/ \E p \in Procs, deviceID \in DeviceIDs : OnDeviceUninit(p, deviceID)
    \/ \E p \in Procs : Lock(p)
    \/ \E p \in Procs : Check(p)
    \/ \E p \in Procs : Create(p)
    \/ \E p \in Procs : CreatePanics(p)
    \/ \E p \in Procs : Return(p)
    \/ \E p \in Procs : CallLifecycle(p)

\* The registries do not read the connection data: one descriptor is enough.
RegistryInit == Init /\ apiData = NewConnectionData(8082, "tok")

RegistrySpec == RegistryInit /\ [][RegistryNext]_vars

\* The registries with sub-handler constructors that may panic.
FaultyRegistrySpec == RegistryInit /\ [][FaultyRegistryNext]_vars

-----------------------------------------------------------------------------
(* Serving requests.  The gate and the dispatcher read only the connection  *)
(* data and the routes, so the requests are explored from every quiescent   *)
(* state of the registries: the sub-handlers of the keys in a set M have    *)
(* been created (by uninit events, which leave them inactive).              *)

RECURSIVE MountAll(_, _)
MountAll(r, M) ==
    IF M = {} THEN r
    ELSE LET rk == CHOOSE x \in M : TRUE
         IN  MountAll(Append(r, SubtreeRoute(rk[1], rk[2])), M \ {rk})

MapOf(kind, M) ==
    [k \in {key \in KeysOf(kind) : <<kind, key>> \in M} |-> Instance(kind, k, 1)]

GateInit ==
    /\ apiData \in {NewConnectionData(port, token) : port \in Ports, token \in Tokens}
    /\ \E M \in {{}, RegKeys} :
          /\ router = MountAll(StaticRoutes, M)
          /\ accountHandlersMap = MapOf("account", M)
          /\ deviceHandlersMap = MapOf("devices", M)
          /\ constructed = [rk \in RegKeys |-> IF rk \in M THEN 1 ELSE 0]
    /\ resp = NoRequest
    /\ handlersMapLock = NoProc
    /\ active = {}
    /\ initSeen = {}
    /\ proc = [p \in Procs |-> IdleProc]
    /\ backendEvents = <<>>
    /\ emitted = 0
    /\ conns = [c \in Conns |-> NoConn]
    /\ admittedBefore = FALSE
    /\ opener = NoOpen
    /\ srv = NotStarted
    /\ construction = Constructed
    /\ backend = NoBackendRequest
    /\ store = NewStore

\* The server accepts the next request: any route, any Authorization header,
\* any behaviour of the business function and of the connection.
ServeAPI ==
    /\ resp = NoRequest
    /\ \E i \in 1..Len(router), authorization \in Authorizations,
          outcome \in Outcomes, wf \in WriteFailures :
            APIRequest(i, authorization, outcome, wf)

ServeEvents ==
    /\ resp = NoRequest
    /\ \E i \in 1..Len(router), c \in Conns, authorization \in Authorizations,
          upgradeOk \in BOOLEAN :
            EventsRequest(i, c, authorization, upgradeOk)

GateNext ==
    \/ ServeAPI
    \/ ServeEvents
    \/ Respond

GateSpec == GateInit /\ [][GateNext]_vars

-----------------------------------------------------------------------------
(* POST /api/open requests *)

DownloadsPath == "/home/user/Downloads"

Urls ==
    { "https://shiftcrypto.ch/shop",
      "https://shiftcrypto.ch/shop/admin",
      "https://blockstream.info/testnet/tx/ab",
      "https://etherscan.io/tx/1",
      "https://etherscan.io.evil.example/tx/1",
      "https://evil.example/",
      DownloadsPath \o "/export.csv",
      DownloadsPath \o "-evil/run.sh" }

\* Request bodies: each URL as a JSON string; one with escaped slashes, one
\* with a \u escape, one with a surrogate pair, one with a surrogate alone
\* and one with the escape of a backspace, one with white space around it
\* and text after it; a
\* JSON object with a field "url"; null, a number, a truncated string and an
\* empty body.
Bodies ==
    {QuoteString(u) : u \in Urls}
    \cup { "\"https:\\/\\/shiftcrypto.ch\\/shop\"",
           "\"https://shiftcrypto.ch\\u002fshop\"",
           "\"https://shiftcrypto.ch/shop\\ud83d\\ude00\"",
           "\"https://evil.example/\\ud800\"",
           "\"https://evil.example/\\b\"",
           " \"https://shiftcrypto.ch/shop\" x",
           "{\"url\":\"https://shiftcrypto.ch/shop\"}",
           "null",
           "123",
           "\"https://shiftcrypto.ch/shop",
           "" }

\* What utilConfig.DownloadsDir() returns.
DownloadsResults ==
    { [dir |-> DownloadsPath, err |-> <<>>],
      [dir |-> "", err |-> <<"user: Current not implemented">>] }

\* What system.Open returns.
OpenResults == {<<>>, <<"exec: \"xdg-open\": executable file not found in $PATH">>}

\* A request on the i-th route, the route of postOpenHandler.
OpenRequest(i, authorization, body, downloads, openErr, wf) ==
    /\ resp = NoRequest
    /\ i \in 1..Len(router)
    /\ router[i] = getAPIRouter("/api", "POST", "/open")
    /\ LET h == postOpenHandler(body, downloads, openErr)
           r == ensureAPITokenValid(authorization, router[i].path, apiData, h.outcome, wf)
       IN  /\ resp' = [handler |-> "api", path |-> router[i].path,
                        authorization |-> authorization, outcome |-> h.outcome, wf |-> wf,
                        gateChecked |-> TRUE, ran |-> r.ran, response |-> r.response]
           /\ opener' = [body |-> body, downloads |-> downloads, openErr |-> openErr,
                         calls |-> IF r.ran THEN h.calls ELSE <<>>]
           /\ admittedBefore' = (admittedBefore \/ r.ran)
    /\ UNCHANGED <<store, apiData, router, backend, registryVars, bridgeVars, serverVars>>

ServeOpen ==
    /\ resp = NoRequest
    /\ \E i \in 1..Len(router), authorization \in {"", "Basic tok"}, body \in Bodies,
          downloads \in DownloadsResults, openErr \in OpenResults :
            OpenRequest(i, authorization, body, downloads, openErr, {})

OpenNext ==
    \/ ServeOpen
    \/ Respond

OpenSpec == Init /\ [][OpenNext]_vars

-----------------------------------------------------------------------------
(* frontends/qt/server/server.go: serve() and the goroutine it starts.      *)

FreePorts == {8082, 8083}
Now == 0..MaxNow

\* time.Local: the time zone of the system the program runs on, one of
\* these locations.  A location is the sequence of its periods, each with the
\* instant it starts at and its offset from UTC, the first period reaching
\* back without limit; instants and offsets are in hours.  The locations are
\* UTC, a zone east of UTC and a zone west of it, the two switching to summer
\* time and back.
Local ==
    { << [start |-> 0, offset |-> 0] >>,
      << [start |-> 0, offset |-> 1],
         [start |-> 30, offset |-> 2],
         [start |-> 70, offset |-> 1] >>,
      << [start |-> 0, offset |-> -5],
         [start |-> 30, offset |-> -4],
         [start |-> 70, offset |-> -5] >> }

\* Location.lookup: the period in effect at an instant, with its start and
\* end; the first period has no start and the last one no end.
lookup(l, t) ==
    LET i == IF t < l[1].start THEN 1
             ELSE CHOOSE j \in 1..Len(l) :
                     /\ l[j].start <= t
                     /\ \A k \in 1..Len(l) : l[k].start <= t => k <= j
    IN  [offset |-> l[i].offset,
         first |-> i = 1, start |-> l[i].start,
         last |-> i = Len(l), end |-> IF i = Len(l) THEN 0 ELSE l[i + 1].start]

\* The local wall clock at an instant, in hours.
Wall(l, t) == t + lookup(l, t).offset

\* time.Date(..., loc) for a wall-clock reading: the offset is looked up at
\* the reading taken as an instant; when it is not zero and the instant it
\* gives lies outside the period found, the offset in effect at that instant
\* is taken.
Date(l, wall) ==
    LET found == lookup(l, wall)
        utc == wall - found.offset
        offset == IF /\ found.offset # 0
                     /\ \/ ~found.first /\ utc < found.start
                        \/ ~found.last /\ utc >= found.end
                     THEN lookup(l, utc).offset ELSE found.offset
    IN  wall - offset

\* A mutant of AddDate that adds 24 hours per day to the instant.
AddDateAbsolute(l, t, days) == t + 24 * days

\* t.AddDate(0, 0, days): the same wall-clock reading, days calendar days
\* later, in t's location l.
AddDate(l, t, days) == Date(l, Wall(l, t) + 24 * days)

\* Where saveAsPEM can fail.
PEMFailures == {"MkdirAll", "Create", "Encode", "Close"}

\* A mutant of log.Fatal that only logs.
logPrint(s, call) == [s EXCEPT !.failed = call]

\* log.Fatal / log.Fatalf: the message is logged and the process exits.
logFatal(s, call) == [s EXCEPT !.failed = call, !.exited = TRUE]

\* port, err := freeport.FreePort()
FreePort(ok, port) ==
    /\ ~srv.exited
    /\ srv.main = "FreePort"
    /\ srv' = IF ok THEN [srv EXCEPT !.main = "NewHandlers", !.port = port]
                    ELSE logFatal(srv, "FreePort")
    /\ UNCHANGED <<store, construction, gateVars, registryVars, bridgeVars>>

\* handlers := backendHandlers.NewHandlers(backend.NewBackend(), port): the
\* connection data is made for the port FreePort returned (server.go hands
\* over the port alone; the token is the caller's choice), and the
\* statements of NewHandlersSteps run to the end: the routes are mounted,
\* the callbacks registered and the backend started.
NewHandlers ==
    /\ ~srv.exited
    /\ srv.main = "NewHandlers"
    /\ srv' = [srv EXCEPT !.main = "generateRSAPrivateKey"]
    /\ \E token \in Tokens : apiData' = NewConnectionData(srv.port, token)
    /\ router' = [i \in 1..Len(StaticRoutes) |->
                     StaticRoutes[(SelectSeq(NewHandlersSteps,
                                             LAMBDA step : step.do = "route")[i]).route]]
    /\ construction' =
          [NotConstructed EXCEPT
              !.pc = Len(NewHandlersSteps) + 1,
              !.callbacks = {NewHandlersSteps[i].callback :
                                i \in {j \in 1..Len(NewHandlersSteps) :
                                          NewHandlersSteps[j].do = "callback"}},
              !.started = \E i \in 1..Len(NewHandlersSteps) :
                              NewHandlersSteps[i].do = "Start"]
    /\ UNCHANGED <<store, resp, admittedBefore, opener, backend, registryVars, bridgeVars>>

\* privateKey, err := generateRSAPrivateKey()
generateRSAPrivateKey(ok) ==
    /\ ~srv.exited
    /\ srv.main = "generateRSAPrivateKey"
    /\ srv' = IF ok THEN [srv EXCEPT !.main = "createSelfSignedCertificate",
                                     !.privateKey = TRUE]
                    ELSE logFatal(srv, "generateRSAPrivateKey")
    /\ UNCHANGED <<store, construction, gateVars, registryVars, bridgeVars>>

\* certificate, err := createSelfSignedCertificate(privateKey), called at
\* time now on a system whose time zone is loc.
createSelfSignedCertificate(ok, now, loc) ==
    /\ ~srv.exited
    /\ srv.main = "createSelfSignedCertificate"
    /\ srv' = IF ok THEN [srv EXCEPT !.main = "saveAsPEM",
                                     !.certificate = <<[at |-> now, loc |-> loc,
                                                        notBefore |-> now,
                                                        notAfter |-> AddDate(loc, now, 1)]>>]
                    ELSE logFatal(srv, "createSelfSignedCertificate")
    /\ UNCHANGED <<store, construction, gateVars, registryVars, bridgeVars>>

\* saveAsPEM(tlsServerCertificate, certificatePEM); failure is "none" or the
\* call inside saveAsPEM that fails.
saveAsPEM(failure) ==
    /\ ~srv.exited
    /\ srv.main = "saveAsPEM"
    /\ srv' = IF failure = "none"
                 THEN [srv EXCEPT !.main = "go", !.pemFile = "saved"]
                 ELSE logFatal(srv, failure)
    /\ UNCHANGED <<store, construction, gateVars, registryVars, bridgeVars>>

\* go func() { ... }()
GoServe ==
    /\ ~srv.exited
    /\ srv.main = "go"
    /\ srv' = [srv EXCEPT !.main = "return", !.go = "Listen"]
    /\ UNCHANGED <<store, construction, gateVars, registryVars, bridgeVars>>

\* return port
ReturnPort ==
    /\ ~srv.exited
    /\ srv.main = "return"
    /\ srv' = [srv EXCEPT !.main = "returned", !.returned = <<srv.port>>]
    /\ UNCHANGED <<store, construction, gateVars, registryVars, bridgeVars>>

\* In the goroutine: listener, err := net.Listen("tcp", server.Addr)
Listen(ok) ==
    /\ ~srv.exited
    /\ srv.go = "Listen"
    /\ srv' = IF ok THEN [srv EXCEPT !.go = "Serve", !.bound = TRUE]
                    ELSE logFatal(srv, "Listen")
    /\ UNCHANGED <<store, construction, gateVars, registryVars, bridgeVars>>

\* In the goroutine: server.Serve(tlsListener) answers one more request.
ServeRequest ==
    /\ ~srv.exited
    /\ srv.go = "Serve"
    /\ srv.served < MaxServed
    /\ srv' = [srv EXCEPT !.served = @ + 1]
    /\ UNCHANGED <<store, construction, gateVars, registryVars, bridgeVars>>

\* In the goroutine: server.Serve returns its error.
ServeReturns ==
    /\ ~srv.exited
    /\ srv.go = "Serve"
    /\ srv' = logFatal(srv, "Serve")
    /\ UNCHANGED <<store, construction, gateVars, registryVars, bridgeVars>>

StartupNext ==
    \/ \E ok \in BOOLEAN, port \in FreePorts : FreePort(ok, port)
    \/ NewHandlers
    \/ \E ok \in BOOLEAN : generateRSAPrivateKey(ok)
    \/ \E ok \in BOOLEAN, now \in Now, loc \in Local :
          createSelfSignedCertificate(ok, now, loc)
    \/ \E failure \in {"none"} \cup PEMFailures : saveAsPEM(failure)
    \/ GoServe
    \/ ReturnPort
    \/ \E ok \in BOOLEAN : Listen(ok)
    \/ ServeRequest
    \/ ServeReturns

\* serve() has not been called: there is no connection data, no router and
\* no backend yet.
StartupInit ==
    /\ apiData = [port |-> 0, token |-> "", devMode |-> FALSE]
    /\ router = <<>>
    /\ resp = NoRequest
    /\ accountHandlersMap = EmptyMap
    /\ deviceHandlersMap = EmptyMap
    /\ handlersMapLock = NoProc
    /\ constructed = [rk \in RegKeys |-> 0]
    /\ active = {}
    /\ initSeen = {}
    /\ proc = [p \in Procs |-> IdleProc]
    /\ backendEvents = <<>>
    /\ emitted = 0
    /\ conns = [c \in Conns |-> NoConn]
    /\ admittedBefore = FALSE
    /\ opener = NoOpen
    /\ srv = NotStarted
    /\ construction = NotConstructed
    /\ backend = NoBackendRequest
    /\ store = NewStore

StartupSpec == StartupInit /\ [][StartupNext]_vars

-----------------------------------------------------------------------------
(* NewHandlers, statement by statement, and the lifecycle events the        *)
(* backend emits once it has been started.                                  *)

\* The next registering statement of NewHandlers.
NewHandlersStep ==
    /\ construction.pc <= Len(NewHandlersSteps)
    /\ LET step == NewHandlersSteps[construction.pc]
       IN  /\ router' = IF step.do = "route"
                           THEN Append(router, StaticRoutes[step.route]) ELSE router
           /\ construction' =
                 [construction EXCEPT
                    !.pc = @ + 1,
                    !.callbacks = IF step.do = "callback" THEN @ \cup {step.callback} ELSE @,
                    !.started = @ \/ step.do = "Start"]
    /\ UNCHANGED <<store, apiData, resp, admittedBefore, opener, backend, srv, registryVars,
                   bridgeVars>>

\* The started backend emits a lifecycle event: it calls the callback
\* registered for it, if there is one.
LifecycleEvent(callback) ==
    /\ construction.started
    /\ Len(construction.handled) + Len(construction.missed) < MaxLifecycleEvents
    /\ construction' =
          IF callback \in construction.callbacks
             THEN [construction EXCEPT !.handled = Append(@, callback)]
             ELSE [construction EXCEPT !.missed = Append(@, callback)]
    /\ UNCHANGED <<store, gateVars, srv, registryVars, bridgeVars>>

ConstructionNext ==
    \/ NewHandlersStep
    \/ \E callback \in Callbacks : LifecycleEvent(callback)

ConstructionInit ==
    /\ apiData = NewConnectionData(8082, "tok")
    /\ router = <<>>
    /\ resp = NoRequest
    /\ accountHandlersMap = EmptyMap
    /\ deviceHandlersMap = EmptyMap
    /\ handlersMapLock = NoProc
    /\ constructed = [rk \in RegKeys |-> 0]
    /\ active = {}
    /\ initSeen = {}
    /\ proc = [p \in Procs |-> IdleProc]
    /\ backendEvents = <<>>
    /\ emitted = 0
    /\ conns = [c \in Conns |-> NoConn]
    /\ admittedBefore = FALSE
    /\ opener = NoOpen
    /\ srv = NotStarted
    /\ construction = NotConstructed
    /\ backend = NoBackendRequest
    /\ store = NewStore

ConstructionSpec == ConstructionInit /\ [][ConstructionNext]_vars

-----------------------------------------------------------------------------
(* POST /api/account-add and POST /api/test/register requests *)

Inputs ==
    [testing : BOOLEAN, decodeErr : {<<>>, <<"EOF">>}, coinCode : {"btc", "eth", "doge"},
     scriptType : {"p2wpkh", "p2tr"}, xpubVersion : {"xpub", "zpub"},
     accountName : {"watch"},
     extendedPublicKey : {"xpub", "zpub", "tpub", "xprv", "tprv", "garbage"},
     pin : {"1234"}]

\* A request on the i-th route, the route of one of the two handlers.
BackendRequest(i, authorization, input, wf) ==
    /\ resp = NoRequest
    /\ i \in 1..Len(router)
    /\ router[i] \in {getAPIRouter("/api", "POST", "/account-add"),
                      getAPIRouter("/api", "POST", "/test/register")}
    /\ LET h == IF router[i].path = "/api/account-add"
                   THEN postAddAccountHandler(input)
                   ELSE postRegisterTestKeystoreHandler(input)
           r == ensureAPITokenValid(authorization, router[i].path, apiData, h.outcome, wf)
       IN  /\ resp' = [handler |-> "api", path |-> router[i].path,
                        authorization |-> authorization, outcome |-> h.outcome, wf |-> wf,
                        gateChecked |-> TRUE, ran |-> r.ran, response |-> r.response]
           /\ backend' = [request |-> router[i].path, input |-> input,
                          calls |-> IF r.ran THEN h.calls ELSE <<>>]
           /\ admittedBefore' = (admittedBefore \/ r.ran)
    /\ UNCHANGED <<store, apiData, router, opener, registryVars, bridgeVars, serverVars>>

ServeBackend ==
    /\ resp = NoRequest
    /\ \E i \in 1..Len(router), authorization \in {"", "Basic tok"}, input \in Inputs :
            BackendRequest(i, authorization, input, {})

BusinessNext ==
    \/ ServeBackend
    \/ Respond

BusinessSpec == Init /\ [][BusinessNext]_vars

-----------------------------------------------------------------------------
(* Calls of the fiat store's functions and completions of config writes *)

\* export function setActiveFiat(fiat)
SetActiveFiat(fiat) ==
    /\ store.started < MaxCalls
    /\ store' = [setActiveFiat(store, fiat) EXCEPT !.started = @ + 1]
    /\ UNCHANGED <<gateVars, registryVars, bridgeVars, serverVars>>

\* export function rotateFiat(); an index outside the array reads undefined.
RotateFiat ==
    /\ store.started < MaxCalls
    /\ LET selected == store.state.selected
           index == indexOf(selected, store.state.active)
           fiat == IF Len(selected) = 0 THEN "undefined"
                   ELSE selected[((index + 1) % Len(selected)) + 1]
       IN  store' = [setActiveFiat(store, fiat) EXCEPT !.started = @ + 1]
    /\ UNCHANGED <<gateVars, registryVars, bridgeVars, serverVars>>

\* export function selectFiat(fiat)
SelectFiat(fiat) ==
    /\ store.started < MaxCalls
    /\ store' = [selectFiat(store, fiat) EXCEPT !.started = @ + 1]
    /\ UNCHANGED <<gateVars, registryVars, bridgeVars, serverVars>>

\* export function unselectFiat(fiat)
UnselectFiat(fiat) ==
    /\ store.started < MaxCalls
    /\ LET selected == SelectSeq(store.state.selected, LAMBDA item : item # fiat)
       IN  store' = [selectedFiat(store, "unselectFiat", fiat, selected)
                        EXCEPT !.started = @ + 1]
    /\ UNCHANGED <<gateVars, registryVars, bridgeVars, serverVars>>

\* The i-th pending config write completes: the config holds the value, and
\* the then-callback of selectFiat / unselectFiat puts its list into the
\* store and posts accounts/reinitialize.  Writes complete in any order.
ConfigWritten(i) ==
    /\ i \in 1..Len(store.pending)
    /\ LET write == store.pending[i]
           rest == [j \in 1..(Len(store.pending) - 1) |->
                       IF j < i THEN store.pending[j] ELSE store.pending[j + 1]]
       IN  store' =
              IF write.key = "fiatList"
                 THEN [store EXCEPT !.config.fiatList = write.value,
                                    !.state.selected = write.value,
                                    !.reinitialized = @ + 1,
                                    !.pending = rest]
              ELSE [store EXCEPT !.config.mainFiat = write.value[1], !.pending = rest]
    /\ UNCHANGED <<gateVars, registryVars, bridgeVars, serverVars>>

\* apiGet('config').then((appconf) => { ... }), requested at module load:
\* the callback runs once, whenever the response arrives.  appconf.frontend
\* tells whether the response has a frontend part, backend.present whether
\* it has a backend part; mainFiat "" and fiatList <<>> stand for an absent
\* field, fiatList <<list>> for a list.  Reading appconf.backend.mainFiat
\* without a backend part throws and ends the callback.
ConfigLoaded(appconf) ==
    /\ store.load = "pending"
    /\ LET throws == appconf.frontend /\ ~appconf.backend.present
           mainFiat == IF ~throws /\ appconf.frontend /\ appconf.backend.mainFiat # ""
                        THEN appconf.backend.mainFiat ELSE store.state.active
           fiatList == IF ~throws /\ appconf.backend.present
                                 /\ appconf.backend.fiatList # <<>>
                          THEN appconf.backend.fiatList[1] ELSE store.state.selected
       IN  store' = [store EXCEPT
                        !.state = [active |-> mainFiat, selected |-> fiatList],
                        !.load = IF store.started = 0 /\ indexOf(fiatList, mainFiat) # -1
                                    THEN "clean" ELSE "other"]
    /\ UNCHANGED <<gateVars, registryVars, bridgeVars, serverVars>>

StoreNext ==
    \/ \E appconf \in [frontend : BOOLEAN,
                        backend : [present : BOOLEAN, mainFiat : {"", "USD"},
                                   fiatList : {<<>>, <<(<<"USD">>)>>,
                                               <<(<<"USD", "EUR", "CHF">>)>>}]] :
            ConfigLoaded(appconf)
    \/ \E fiat \in Fiats : SetActiveFiat(fiat)
    \/ RotateFiat
    \/ \E fiat \in Fiats : SelectFiat(fiat)
    \/ \E fiat \in Fiats : UnselectFiat(fiat)
    \/ \E i \in 1..(2 * MaxCalls) : ConfigWritten(i)

StoreInit == Init /\ apiData = NewConnectionData(8082, "tok")

StoreSpec == StoreInit /\ [][StoreNext]_vars

-----------------------------------------------------------------------------
(* Event bridge: the backend event source, the relay goroutine started by  *)
(* eventsHandler, and the websocket loops of runWebsocket.                 *)

\* The backend puts its next event on the channel returned by Start().
BackendEmit ==
    /\ emitted < MaxEvents
    /\ Len(backendEvents) < BackendEventsCap
    /\ emitted' = emitted + 1
    /\ backendEvents' = Append(backendEvents, emitted + 1)
    /\ UNCHANGED <<store, serverVars, gateVars, registryVars, conns>>

\* The outer select of the relay loop: return when quitChan is closed,
\* otherwise (default) go on to the inner select.
RelayOuter(c) ==
    /\ conns[c].relay = "outer"
    /\ conns' = [conns EXCEPT ![c].relay = IF conns[c].quit THEN "done" ELSE "inner"]
    /\ UNCHANGED <<store, serverVars, gateVars, registryVars, backendEvents, emitted>>

\* The inner select, case <-quitChan.
RelayInnerQuit(c) ==
    /\ conns[c].relay = "inner"
    /\ conns[c].quit
    /\ conns' = [conns EXCEPT ![c].relay = "done"]
    /\ UNCHANGED <<store, serverVars, gateVars, registryVars, backendEvents, emitted>>

\* A mutant of the inner select that reads the event without removing it.
ReceiveKeep(ch) == ch

\* What a receive leaves on a channel.
Receive(ch) == Tail(ch)

\* The inner select, case event := <-handlers.backendEvents.  When quitChan
\* is closed as well, select picks either case.
RelayInnerEvent(c) ==
    /\ conns[c].relay = "inner"
    /\ backendEvents # <<>>
    /\ conns' = [conns EXCEPT ![c].relay = "send", ![c].event = Head(backendEvents)]
    /\ backendEvents' = Receive(backendEvents)
    /\ UNCHANGED <<store, serverVars, gateVars, registryVars, emitted>>

\* sendChan <- jsonp.MustMarshal(event): blocks while the queue is full.
RelaySend(c) ==
    /\ conns[c].relay = "send"
    /\ Len(conns[c].sendChan) < SendChanCap
    /\ conns' = [conns EXCEPT ![c].relay = "outer", ![c].event = 0,
                              ![c].sendChan = Append(@, MustMarshal(conns[c].event))]
    /\ UNCHANGED <<store, serverVars, gateVars, registryVars, backendEvents, emitted>>

\* The writer loop takes the next message off the queue and writes it to the
\* transport, until cancellation.
WriterWrite(c) ==
    /\ conns[c].writer = "run"
    /\ ~conns[c].quit
    /\ conns[c].sendChan # <<>>
    /\ conns' = [conns EXCEPT ![c].sendChan = Tail(@),
                              ![c].written = Append(@, Head(conns[c].sendChan))]
    /\ UNCHANGED <<store, serverVars, gateVars, registryVars, backendEvents, emitted>>

\* The writer loop ends when cancellation has fired.
WriterQuit(c) ==
    /\ conns[c].writer = "run"
    /\ conns[c].quit
    /\ conns' = [conns EXCEPT ![c].writer = "done"]
    /\ UNCHANGED <<store, serverVars, gateVars, registryVars, backendEvents, emitted>>

\* The transport reports closure: the cancellation signal fires.
TransportClose(c) ==
    /\ conns[c].state = "open"
    /\ conns' = [conns EXCEPT ![c].state = "closed", ![c].quit = TRUE]
    /\ UNCHANGED <<store, serverVars, gateVars, registryVars, backendEvents, emitted>>

\* Clients connect with the token; the bridge does not read the request.
Connect ==
    /\ resp = NoRequest
    /\ \E i \in 1..Len(router), c \in Conns, upgradeOk \in BOOLEAN :
            EventsRequest(i, c, "Basic tok", upgradeOk)

BridgeNext ==
    \/ Connect
    \/ Respond
    \/ BackendEmit
    \/ \E c \in Conns : RelayOuter(c)
    \/ \E c \in Conns : RelayInnerQuit(c)
    \/ \E c \in Conns : RelayInnerEvent(c)
    \/ \E c \in Conns : RelaySend(c)
    \/ \E c \in Conns : WriterWrite(c)
    \/ \E c \in Conns : WriterQuit(c)
    \/ \E c \in Conns : TransportClose(c)

BridgeInit == Init /\ apiData = NewConnectionData(8082, "tok")

BridgeSpec == BridgeInit /\ [][BridgeNext]_vars

\* The goroutines of a connection are scheduled again and again: a goroutine
\* whose next step can be taken, a select with a ready case included, takes
\* a step.
BridgeFairness ==
    \A c \in Conns :
        /\ WF_vars(RelayOuter(c))
        /\ WF_vars(RelayInnerQuit(c))
        /\ WF_vars(RelayInnerEvent(c))
        /\ WF_vars(RelaySend(c))
        /\ WF_vars(WriterWrite(c))
        /\ WF_vars(WriterQuit(c))

FairBridgeSpec == BridgeSpec /\ BridgeFairness

-----------------------------------------------------------------------------
(* Properties *)

AllowOriginDev == "http://localhost:8080"

\* One JSON document as writeJSON puts it on the wire.
Document(value) == Marshal(value)[2] \o "\n"

\* C1: outside development mode, on every route mounted through
\* ensureAPITokenValid the business function runs if and only if the
\* Authorization header is exactly "Basic " + token; every other request
\* (no header, any other value) is answered 401 and the function is not run.
C1TokenGate ==
    (resp.handler = "api" /\ ~isDev(apiData)) =>
        /\ resp.ran <=> (resp.authorization = "Basic " \o apiData.token)
        /\ ~resp.ran => resp.response.status = StatusUnauthorized

C1Witness ==
    /\ resp.handler = "api"
    /\ ~isDev(apiData)
    /\ resp.authorization = "Basic tok2"
    /\ ~resp.ran
    /\ resp.response.status = StatusUnauthorized
    /\ resp.response.body = <<"incorrect token\n">>

\* C2: in development mode (port = -1 or empty token) every request on a
\* gated route, whatever its Authorization header, reaches the business
\* function, and the response carries the fixed Access-Control-Allow-Origin.
C2DevModeAdmits ==
    (resp.handler = "api" /\ isDev(apiData)) =>
        /\ resp.ran
        /\ resp.response.allowOrigin = AllowOriginDev

\* C3: outside development mode no handler of any route under /api
\* (static, dynamically mounted, or /api/events) starts processing a
\* request that did not pass the token gate.
C3EveryRouteGated ==
    (resp.handler # "none" /\ ~isDev(apiData) /\ resp.ran) =>
        /\ resp.gateChecked
        /\ resp.authorization = "Basic " \o apiData.token

SubtreeCount(rk) ==
    Cardinality({i \in 1..Len(router) : router[i] = SubtreeRoute(rk[1], rk[2])})

\* C4: for each registry and key, however the getOrCreate calls interleave,
\* the constructor runs once and one subtree is mounted, and every call
\* returns the one instance stored for the key.
C4OncePerKey ==
    /\ \A rk \in RegKeys :
          /\ constructed[rk] <= 1
          /\ SubtreeCount(rk) = constructed[rk]
          /\ (rk[2] \in DOMAIN HandlersMap(rk[1])) <=> (constructed[rk] = 1)
    /\ \A p \in Procs :
          proc[p].pc = "call" =>
              /\ proc[p].ret = Instance(KindOf(proc[p].op), proc[p].key, 1)
              /\ constructed[<<KindOf(proc[p].op), proc[p].key>>] = 1

\* Two concurrent calls for the same key have both returned.
C4Witness ==
    /\ proc["g1"].pc = "call"
    /\ proc["g2"].pc = "call"
    /\ proc["g1"].key = "d1" /\ proc["g2"].key = "d1"
    /\ proc["g1"].op = "deviceInit" /\ proc["g2"].op = "deviceInit"
    /\ proc["g1"].ret = proc["g2"].ret
    /\ constructed[<<"devices", "d1">>] = 1

\* C5 as stated: a returned value v is answered by exactly the serialization
\* of v, a returned error e by exactly {"error": e.message}; one document.
C5Dispatch ==
    (resp.handler = "api" /\ resp.ran /\ resp.outcome.panic = NoPanic) =>
        IF resp.outcome.err # <<>>
            THEN resp.response.body = <<Document(ErrorMap(resp.outcome.err[1]))>>
            ELSE /\ Marshal(resp.outcome.value)[1]
                 /\ resp.response.body = <<Document(resp.outcome.value)>>

\* C5 as amended: a returned error e is answered by {"error": e.message}
\* (the value is not written) and a returned value v by the serialization of
\* v.  When the encoder rejects v, or the write of the document fails,
\* nothing of it is in the body and {"error": <the encoder's or the write's
\* error>} is written in its place; when that write fails too the body stays
\* empty and the fault leaves the dispatcher.  The body holds one document
\* when a write succeeds and none otherwise.
C5DispatchOutcome ==
    (resp.handler = "api" /\ resp.ran /\ resp.outcome.panic = NoPanic) =>
        LET answer == IF resp.outcome.err # <<>> THEN ErrorMap(resp.outcome.err[1])
                      ELSE resp.outcome.value
            encoded == Marshal(answer)[1]
            \* the fault of the first document and the Write that answers it
            fault == IF encoded THEN WriteError ELSE Marshal(answer)[2]
            second == IF encoded THEN 2 ELSE 1
        IN  /\ Len(resp.response.body) <= 1
            /\ IF encoded /\ 1 \notin resp.wf
                  THEN /\ resp.response.body = <<Document(answer)>>
                       /\ ~resp.response.escaped
               ELSE IF second \notin resp.wf
                  THEN /\ resp.response.body = <<Document(ErrorMap(fault))>>
                       /\ ~resp.response.escaped
               ELSE /\ resp.response.body = <<>>
                    /\ resp.response.escaped

\* The first write of the document fails and the write of the error that
\* takes its place succeeds.
C5Witness ==
    /\ resp.handler = "api"
    /\ resp.ran
    /\ resp.wf = {1}
    /\ resp.outcome = Returns(BoolValue(TRUE), <<"bad \"x\"">>)
    /\ resp.response.body = <<"{\"error\":\"write: broken pipe\"}\n">>

\* A fault happened while the request was dispatched: the business function
\* panicked, or the first writeJSON did.
FaultText(r) ==
    IF r.outcome.panic # NoPanic THEN r.outcome.panic
    ELSE IF r.outcome.err # <<>>
        THEN (IF 1 \in r.wf THEN <<WriteError>> ELSE <<>>)
    ELSE IF ~Marshal(r.outcome.value)[1] THEN <<Marshal(r.outcome.value)[2]>>
    ELSE (IF 1 \in r.wf THEN <<WriteError>> ELSE <<>>)

\* C6: no fault of a dispatched request escapes to the transport; the
\* request ends with a JSON body, {"error": <fault text>} after a fault.
C6NoFaultEscapes ==
    (resp.handler = "api" /\ resp.ran) =>
        /\ ~resp.response.escaped
        /\ Len(resp.response.body) >= 1
        /\ FaultText(resp) # <<>> =>
              resp.response.body[Len(resp.response.body)] =
                  Document(ErrorMap(FaultText(resp)[1]))

\* C7: once the transport of a connection has closed, its writer loop and
\* its relay loop both terminate, and nothing more is written to it.
C7Teardown ==
    /\ \A c \in Conns :
          conns[c].quit ~> (conns[c].relay = "done" /\ conns[c].writer = "done")
    /\ [][\A c \in Conns : conns[c].quit => conns'[c].written = conns[c].written]_vars

\* C8: a fired cancellation signal stays fired, and from then on the relay
\* loop of that connection takes no event from the backend event source.
C8CancelPreferred ==
    [][\A c \in Conns :
          conns[c].quit =>
              /\ conns'[c].quit
              /\ ~(conns[c].relay = "inner" /\ conns'[c].relay = "send")]_vars

\* Everything ever put on the outbound queue of a connection, in order.
Enqueued(c) == conns[c].written \o conns[c].sendChan

Deliveries(event) ==
    {<<c, i>> \in Conns \X (1..MaxEvents) :
        i <= Len(Enqueued(c)) /\ Enqueued(c)[i] = MustMarshal(event)}

\* C9: every event of the shared source is put on the outbound queue of at
\* most one connection, and at most once.
C9Partitioned ==
    \A event \in 1..MaxEvents : Cardinality(Deliveries(event)) <= 1

\* Two clients are connected; the first event went to the second client and
\* the second event to the first.
C9Witness ==
    /\ conns[1].state = "open"
    /\ conns[2].state = "open"
    /\ Deliveries(1) = {<<2, 1>>}
    /\ Deliveries(2) = {<<1, 1>>}

\* C10: an uninit event for a key that never saw an init event creates no
\* registry entry, constructs no sub-handler and mounts no subtree.
C10UninitNoop ==
    \A rk \in RegKeys :
        rk \notin initSeen =>
            /\ constructed[rk] = 0
            /\ rk[2] \notin DOMAIN HandlersMap(rk[1])
            /\ SubtreeCount(rk) = 0


\* C11: a device whose concrete type is not bitbox.Device never gets a
\* device-registry entry nor a /api/devices/{deviceID} subtree, whatever
\* sequence of device init and uninit events the backend delivers.
C11OtherDeviceNoEntry ==
    \A deviceID \in DeviceIDs :
        DeviceType(deviceID) # "bitbox.Device" =>
            /\ deviceID \notin DOMAIN deviceHandlersMap
            /\ SubtreeCount(<<"devices", deviceID>>) = 0
            /\ constructed[<<"devices", deviceID>>] = 0

\* C12: a registry entry is never evicted nor replaced: a bound key stays
\* bound to the same instance, every registered route stays registered, and
\* an uninit call only takes the instance out of the active set.
C12NeverEvicted ==
    [][/\ \A k \in DOMAIN accountHandlersMap :
              k \in DOMAIN accountHandlersMap' /\ accountHandlersMap'[k] = accountHandlersMap[k]
       /\ \A k \in DOMAIN deviceHandlersMap :
              k \in DOMAIN deviceHandlersMap' /\ deviceHandlersMap'[k] = deviceHandlersMap[k]
       /\ Len(router') >= Len(router)
       /\ \A i \in 1..Len(router) : router'[i] = router[i]
       /\ \A p \in Procs :
              (proc[p].pc = "call" /\ proc'[p].pc = "idle"
                 /\ proc[p].op \in {"accountUninit", "deviceUninit"}) =>
                  /\ active' = active \ {proc[p].ret}
                  /\ accountHandlersMap' = accountHandlersMap
                  /\ deviceHandlersMap' = deviceHandlersMap
                  /\ router' = router]_vars

\* Both device entries exist, the first device has been initialized and
\* uninitialized again: its entry and its subtree are still there.
C12Witness ==
    /\ DOMAIN deviceHandlersMap = {"d1", "d2"}
    /\ "a1" \in DOMAIN accountHandlersMap
    /\ deviceHandlersMap["d1"] = Instance("devices", "d1", 1)
    /\ <<"devices", "d1">> \in initSeen
    /\ Instance("devices", "d1", 1) \notin active
    /\ SubtreeCount(<<"devices", "d1">>) = 1
    /\ \A p \in Procs : proc[p].pc = "idle"


\* C13: the devMode flag stored by NewConnectionData is true exactly when
\* the port is -1 or the token is empty, so it equals isDev(); and port,
\* token and devMode never change after construction.
C13DevModeFlag ==
    /\ [](/\ apiData.devMode <=> (apiData.port = DevPort \/ apiData.token = "")
          /\ apiData.devMode = isDev(apiData))
    /\ [][apiData' = apiData]_vars


\* C14: the dispatcher never sets a status: every request that passed the
\* gate is answered with the default success status, whether the business
\* function returned a value, returned an error or panicked; the
\* unauthorized status comes only from the gate rejecting a request.
C14DefaultStatus ==
    /\ (resp.handler = "api" /\ resp.ran) => resp.response.status = StatusOK
    /\ resp.response.status = StatusUnauthorized =>
          /\ resp.handler = "api"
          /\ ~resp.ran
          /\ ~isAPITokenValid(resp.authorization, apiData)

\* A business function panicked: the recovered panic is answered with the
\* error document under the success status.
C14Witness ==
    /\ resp.handler = "api"
    /\ resp.ran
    /\ resp.outcome = Panics("boom")
    /\ resp.wf = {}
    /\ resp.response.status = StatusOK
    /\ resp.response.body = <<"{\"error\":\"boom\"}\n">>


\* The URL a POST /api/open body carries.
RequestedURL == DecodeString(opener.body).s

\* A path lies inside a directory: it is the directory or below it.
InsideDir(path, dir) == path = dir \/ HasPrefix(path, dir \o "/")

Allowed(url, dir) ==
    \/ url \in whitelistedURLs
    \/ \E i \in 1..Len(whitelistedPatterns) : MatchString(whitelistedPatterns[i], url)
    \/ InsideDir(url, dir)

\* C15: POST /api/open hands a URL to the system opener only if the URL is
\* an allow-listed literal, matches an allow-listed pattern or lies inside
\* the downloads directory; every other URL, a path that only starts with
\* the text of the downloads directory's path included, gets the blocked-URL
\* error and the opener is not called.
C15OpenAllowList ==
    /\ \A i \in 1..Len(opener.calls) :
          /\ opener.calls[i] = RequestedURL
          /\ Allowed(opener.calls[i], opener.downloads.dir)
    /\ (resp.handler = "api" /\ resp.ran /\ opener # NoOpen
          /\ DecodeString(opener.body).ok /\ opener.downloads.err = <<>>
          /\ ~Allowed(RequestedURL, opener.downloads.dir)) =>
          /\ opener.calls = <<>>
          /\ resp.outcome.err = <<"Blocked /open with url: " \o RequestedURL>>

\* C16 as stated: a POST /api/open whose body is the JSON object {"url": U},
\* U an allow-listed literal, calls the opener with U and returns no error.
C16OpenLiteralObject ==
    (resp.handler = "api" /\ resp.ran
       /\ opener.body = "{\"url\":\"https://shiftcrypto.ch/shop\"}"
       /\ opener.downloads.err = <<>> /\ opener.openErr = <<>>) =>
        /\ opener.calls = <<"https://shiftcrypto.ch/shop">>
        /\ resp.outcome.err = <<>>

\* C16 as amended: a POST /api/open whose body is a JSON string that decodes
\* to an allow-listed literal U calls the opener once, with U, when the
\* downloads directory can be resolved, and returns what the opener returns
\* (no error when the opener succeeds).
C16OpenLiteralString ==
    (resp.handler = "api" /\ resp.ran /\ opener # NoOpen
       /\ DecodeString(opener.body).ok /\ RequestedURL \in whitelistedURLs
       /\ opener.downloads.err = <<>>) =>
        /\ opener.calls = <<RequestedURL>>
        /\ resp.outcome = Returns(NilValue, opener.openErr)
        /\ opener.openErr = <<>> =>
              resp.response.body = <<Document(NilValue)>>

\* The body is the JSON string of a literal, written with escaped slashes.
C16Witness ==
    /\ resp.handler = "api"
    /\ resp.ran
    /\ opener.body = "\"https:\\/\\/shiftcrypto.ch\\/shop\""
    /\ opener.openErr = <<>>
    /\ opener.calls = <<"https://shiftcrypto.ch/shop">>
    /\ resp.response.body = <<"null\n">>


\* C17: the token gate is stateless: whether a request is admitted depends
\* only on its Authorization header and on the connection data, which do
\* not change; whatever requests were served before, the same request gets
\* the same answer, and a request without the token is rejected also after
\* an earlier request was admitted.
C17GateStateless ==
    resp.handler = "api" =>
        IF apiData.devMode \/ resp.authorization = "Basic " \o apiData.token
            THEN resp.ran
            ELSE /\ ~resp.ran
                 /\ resp.response = tokenError(resp.authorization, resp.path, resp.wf)

\* After an admitted request, a request without the header is rejected.
C17Witness ==
    /\ admittedBefore
    /\ ~apiData.devMode
    /\ resp.handler = "api"
    /\ resp.authorization = ""
    /\ ~resp.ran
    /\ resp.response.status = StatusUnauthorized


\* C18: a failure to persist the PEM file (creating the directory, creating,
\* writing or closing the file) does not abort the process: serve() goes on
\* to start the listener.
C18PersistFailureTolerated ==
    srv.failed \in PEMFailures => ~srv.exited

\* C19: the TLS identity exists before the listener binds, and when serve()
\* has returned the port the listener is bound on it.
C19BoundBeforeReturn ==
    /\ srv.bound => (srv.privateKey /\ srv.certificate # <<>>)
    /\ srv.returned # <<>> => (srv.bound /\ srv.returned = <<srv.port>>)

\* C20: when key generation, certificate creation or binding the listener
\* fails the process exits and has served no request; requests are served
\* only with key, certificate and bound listener; after the exit nothing
\* happens any more.
C20FatalStartupErrors ==
    /\ [](/\ srv.failed \in {"generateRSAPrivateKey", "createSelfSignedCertificate",
                              "Listen"} => (srv.exited /\ srv.served = 0)
          /\ (srv.go = "Serve" \/ srv.served > 0) =>
                (srv.privateKey /\ srv.certificate # <<>> /\ srv.bound))
    /\ [][srv.exited => srv' = srv]_vars

\* Binding the listener failed after serve() had returned the port.
C20Witness ==
    /\ srv.failed = "Listen"
    /\ srv.exited
    /\ srv.returned = <<srv.port>>
    /\ srv.served = 0
    /\ ~srv.bound


\* C21 as stated: for every generation time t the certificate has
\* notBefore <= t <= notAfter, and notAfter is 24 hours after notBefore.
C21ValidityWindow ==
    \A i \in 1..Len(srv.certificate) :
        LET c == srv.certificate[i] IN
        /\ c.notBefore <= c.at /\ c.at <= c.notAfter
        /\ c.notAfter = c.notBefore + 24

\* C21 as amended: notBefore is the generation time t, and notAfter is an
\* instant with the same local wall-clock reading on the next calendar day,
\* or, when the local zone skips that reading, an instant whose reading is
\* the hour before or after it; that is 24 hours after notBefore when the
\* zone's offset does not change in the 25 hours after notBefore, and 23 to
\* 25 hours otherwise.
C21CalendarDay ==
    \A i \in 1..Len(srv.certificate) :
        LET c == srv.certificate[i]
            reading == Wall(c.loc, c.notBefore) + 24
        IN  /\ c.notBefore = c.at /\ c.at <= c.notAfter
            /\ \/ Wall(c.loc, c.notAfter) = reading
               \/ /\ \A u \in 0..(MaxNow + 48) : Wall(c.loc, u) # reading
                  /\ Wall(c.loc, c.notAfter) \in {reading - 1, reading + 1}
            /\ c.notAfter - c.notBefore \in 23..25
            /\ (\A u \in c.notBefore..(c.notBefore + 25) :
                    lookup(c.loc, u).offset = lookup(c.loc, c.notBefore).offset) =>
                  c.notAfter = c.notBefore + 24

\* West of UTC, a certificate generated less than a day before the switch to
\* summer time, at a reading the next day skips, expires 23 hours later, at
\* the reading an hour before the skipped one, the offset being the same at
\* both instants.
C21Witness ==
    /\ srv.certificate # <<>>
    /\ lookup(srv.certificate[1].loc, 0).offset = -5
    /\ srv.certificate[1].at = 6
    /\ srv.certificate[1].notAfter = 29
    /\ lookup(srv.certificate[1].loc, 29).offset = -5
    /\ srv.go = "Serve"


\* C22: the registry lock is released before the caller uses the returned
\* entry: no goroutine holds it while Init or Uninit of a sub-handler runs,
\* so a pending Init or Uninit does not keep another goroutine out of
\* get-or-create.
C22LockReleasedBeforeUse ==
    \A p \in Procs : proc[p].pc \in {"call", "idle", "lock"} => handlersMapLock # p

\* While Init of device d1 is pending on one goroutine, the other one is
\* inside get-or-create for the account and constructs its sub-handler.
C22Witness ==
    /\ proc["g1"].pc = "call" /\ proc["g1"].op = "deviceInit" /\ proc["g1"].key = "d1"
    /\ proc["g2"].pc = "read" /\ proc["g2"].op = "accountInit"
    /\ handlersMapLock = "g2"
    /\ constructed[<<"account", "a1">>] = 1

\* The goroutines inside the critical section of get-or-create.
InCriticalSection == {p \in Procs : proc[p].pc \in {"check", "create", "read"}}

\* C24: both maps are read and written only under the one shared lock: at
\* most one goroutine is inside the get-or-create critical section of either
\* registry, it holds the lock, and a step that changes a map is a step of
\* the lock holder.
C24MapsUnderLock ==
    /\ [](/\ Cardinality(InCriticalSection) <= 1
          /\ \A p \in InCriticalSection : handlersMapLock = p)
    /\ [][(accountHandlersMap' # accountHandlersMap
             \/ deviceHandlersMap' # deviceHandlersMap) =>
              /\ handlersMapLock # NoProc
              /\ proc[handlersMapLock].pc = "create"
              /\ proc'[handlersMapLock].pc = "read"]_vars

\* One goroutine is constructing the device sub-handler under the lock while
\* the other waits for the lock with an account event.
C24Witness ==
    /\ proc["g1"].pc = "create" /\ proc["g1"].op = "deviceInit"
    /\ proc["g2"].pc = "lock" /\ proc["g2"].op = "accountInit"
    /\ handlersMapLock = "g1"


\* C23: when the sub-handler constructor panics inside get-or-create, no
\* entry is stored for the key, the lock is released, the entries of the
\* other keys are unchanged, and the next get-or-create for the key finds it
\* absent and constructs again.
C23FailedConstructionNotStored ==
    /\ [][\A p \in Procs :
            (proc[p].pc = "create" /\ proc'[p].pc = "idle") =>
                /\ proc[p].key \notin DOMAIN HandlersMap(KindOf(proc[p].op))
                /\ accountHandlersMap' = accountHandlersMap
                /\ deviceHandlersMap' = deviceHandlersMap
                /\ handlersMapLock' = NoProc]_vars
    /\ [][\A p \in Procs :
            (proc[p].pc = "check" /\ proc'[p].pc # "check"
               /\ proc[p].key \notin DOMAIN HandlersMap(KindOf(proc[p].op))) =>
                proc'[p].pc = "create"]_vars
    /\ [](\A rk \in RegKeys :
            rk[2] \in DOMAIN HandlersMap(rk[1]) =>
                /\ constructed[rk] >= 1
                /\ HandlersMap(rk[1])[rk[2]] = Instance(rk[1], rk[2], constructed[rk]))

\* The constructor for device d1 panicked once; the second get-or-create
\* constructed again and stored that instance.
C23Witness ==
    /\ constructed[<<"devices", "d1">>] = 2
    /\ "d1" \in DOMAIN deviceHandlersMap
    /\ deviceHandlersMap["d1"] = Instance("devices", "d1", 2)
    /\ handlersMapLock = NoProc


\* The connections whose transport is open.
OpenConns == {c \in Conns : conns[c].state = "open"}

\* C25: no event is lost while a client stays connected: every event a relay
\* loop has removed from the backend event source is eventually written to
\* the transport of some connection, unless no client is connected any more.
C25NoEventLost ==
    \A event \in 1..MaxEvents :
        (\E c \in Conns : conns[c].relay = "send" /\ conns[c].event = event)
            ~> \/ \E c \in Conns, i \in 1..MaxEvents :
                     i <= Len(conns[c].written) /\ conns[c].written[i] = MustMarshal(event)
               \/ OpenConns = {}

\* C26: while exactly one client is connected with its transport open, the
\* events leaving the backend event source are taken by that client's relay
\* loop (none is dropped), and its outbound queue holds them in the order
\* they were produced, each once.
C26SingleClientInOrder ==
    /\ [][\A c \in Conns :
            (OpenConns = {c} /\ backendEvents' # backendEvents
               /\ Len(backendEvents') < Len(backendEvents)) =>
                (conns[c].relay = "inner" /\ conns'[c].relay = "send"
                   /\ conns'[c].event = Head(backendEvents))]_vars
    /\ [](\A c \in Conns :
            OpenConns = {c} =>
                \A i, j \in 1..Len(Enqueued(c)) :
                    i < j => \E e1, e2 \in 1..MaxEvents :
                                /\ e1 < e2
                                /\ Enqueued(c)[i] = MustMarshal(e1)
                                /\ Enqueued(c)[j] = MustMarshal(e2))


\* C27: NewHandlers registers the four lifecycle callbacks and all static
\* routes before it starts the backend, so every lifecycle event the backend
\* emits after Start reaches its callback; none is missed.
C27RegisteredBeforeStart ==
    /\ construction.started =>
          /\ construction.callbacks = Callbacks
          /\ router = StaticRoutes
    /\ construction.missed = <<>>

\* NewHandlers has returned and the backend has emitted three events.
C27Witness ==
    /\ construction.pc = Len(NewHandlersSteps) + 1
    /\ construction.started
    /\ construction.handled = <<"OnDeviceInit", "OnAccountInit", "OnDeviceUninit">>
    /\ router = StaticRoutes


\* C28: when the downloads directory cannot be resolved, POST /api/open
\* returns that error and does not call the system opener, whatever URL was
\* posted, the allow-listed literals included.
C28DownloadsDirFailure ==
    (resp.handler = "api" /\ resp.ran /\ opener # NoOpen
       /\ DecodeString(opener.body).ok /\ opener.downloads.err # <<>>) =>
        /\ opener.calls = <<>>
        /\ resp.outcome = Returns(NilValue, opener.downloads.err)

\* An allow-listed literal is posted and the downloads directory fails.
C28Witness ==
    /\ resp.handler = "api"
    /\ resp.ran
    /\ opener.body = "\"https://shiftcrypto.ch/shop\""
    /\ opener.downloads.err = <<"user: Current not implemented">>
    /\ opener.calls = <<>>
    /\ resp.response.body = <<"{\"error\":\"user: Current not implemented\"}\n">>


\* What POST /api/account-add must do when the key's network is compared
\* with the coin's for the coins in netChecked: one call at most, made only
\* when every check passed, and the key failures reported as values.  Both
\* coins are mainnet coins; tpub and tprv are the testnet keys.
AccountAdd(netChecked) ==
    (resp.handler = "api" /\ resp.ran /\ backend.request = "/api/account-add") =>
        LET input == backend.input
            reached == /\ input.decodeErr = <<>>
                       /\ input.coinCode \in {"btc", "eth"}
                       /\ input.scriptType \in {"p2pkh", "p2wpkh-p2sh", "p2wpkh"}
            failed(code) == /\ resp.outcome =
                                  Returns(ResultMap(FALSE, "errorCode", code), <<>>)
                            /\ backend.calls = <<>>
        IN  /\ Len(backend.calls) <= 1
            /\ \A i \in 1..Len(backend.calls) :
                  backend.calls[i].fn = "CreateAndAddAccount"
            /\ backend.calls # <<>> =>
                  /\ reached
                  /\ input.extendedPublicKey \in {"xpub", "ypub", "zpub", "tpub"}
                  /\ input.coinCode \in netChecked => input.extendedPublicKey # "tpub"
            /\ (reached /\ input.extendedPublicKey = "garbage") => failed("xpubInvalid")
            /\ (reached /\ input.extendedPublicKey \in {"xprv", "tprv"})
                  => failed("xprivEntered")
            /\ (reached /\ input.extendedPublicKey = "tpub"
                  /\ input.coinCode \in netChecked) => failed("xpubWrongNet")

\* C29 as stated: CreateAndAddAccount is called at most once per request and
\* only when every check passed, the key matching the coin's network among
\* them; the three key failures come back as success:false with errorCode
\* xpubInvalid, xprivEntered or xpubWrongNet.
C29AccountAdd == AccountAdd({"btc", "eth"})

\* C29 as amended: the same, with the key's network checked only when the
\* coin is a *btc.Coin; for a coin of another type a key of any network
\* creates the account.
C29AccountAddBtcNet == AccountAdd({"btc"})

\* A testnet key creates an account of the coin that is not a *btc.Coin, once.
C29Witness ==
    /\ resp.handler = "api" /\ resp.ran
    /\ backend.request = "/api/account-add"
    /\ backend.input.coinCode = "eth"
    /\ backend.input.extendedPublicKey = "tpub"
    /\ backend.input.scriptType = "p2wpkh"
    /\ backend.input.decodeErr = <<>>
    /\ backend.calls = <<[fn |-> "CreateAndAddAccount", arg |-> "p2wpkh:tpub-eth"]>>
    /\ resp.response.body = <<"{\"accountCode\":\"p2wpkh:tpub-eth\",\"success\":true}\n">>

\* C30: POST /api/test/register calls RegisterTestKeystore only when
\* backend.Testing() is true; otherwise it returns an error and makes no
\* call on the backend, whatever the body.
C30TestKeystoreOnlyWhenTesting ==
    (resp.handler = "api" /\ resp.ran /\ backend.request = "/api/test/register") =>
        /\ \A i \in 1..Len(backend.calls) :
              backend.calls[i].fn = "RegisterTestKeystore" /\ backend.input.testing
        /\ ~backend.input.testing =>
              /\ backend.calls = <<>>
              /\ resp.outcome = Returns(NilValue, <<"Test keystore not available">>)

\* Outside testing mode a well-formed request is refused.
C30Witness ==
    /\ resp.handler = "api" /\ resp.ran
    /\ backend.request = "/api/test/register"
    /\ ~backend.input.testing
    /\ backend.input.decodeErr = <<>>
    /\ backend.calls = <<>>
    /\ resp.response.body = <<"{\"error\":\"Test keystore not available\"}\n">>


\* C31: once every pending config write has completed the active fiat is in
\* the selected list; the config loaded at module load has not arrived, or
\* it arrived before the first call and left the active fiat selected.
C31ActiveSelected ==
    (store.pending = <<>> /\ store.load \in {"pending", "clean"}) =>
        indexOf(store.state.selected, store.state.active) # -1

\* C32: when every pending config write has completed, a selectFiat or
\* unselectFiat call that overlapped with a call on another fiat, and is the
\* only call on its fiat, is reflected in the selected list: the selected
\* fiat is in it, the unselected fiat is not.  The config loaded at module
\* load did not arrive after the first call.
C32NoLostUpdate ==
    (store.pending = <<>> /\ store.load \in {"pending", "clean"}) =>
        \A c \in 1..Len(store.calls) :
            LET call == store.calls[c]
            IN  (/\ call.overlapped
                 /\ \A d \in 1..Len(store.calls) : d # c => store.calls[d].fiat # call.fiat)
                => (call.op = "selectFiat"
                        <=> indexOf(store.state.selected, call.fiat) # -1)

=============================================================================
